---- MODULE Spec2Model ----
(***************************************************************************)
(* A model of tools/draft_generator.py: the type signature parser          *)
(* (parse_field_type and its regular expressions), the resource extractor  *)
(* with its synthetic model completer (parse_models_from_xml), the         *)
(* dependency resolver (generate_pydantic_models) and the code emitter     *)
(* (generate_model_code, get_python_type).                                 *)
(*                                                                         *)
(* Python strings are sequences of one-character strings, so that the      *)
(* regular expressions, str.strip, str.replace, str.upper and sorted() are *)
(* computed character by character.                                        *)
(***************************************************************************)
EXTENDS Integers, Sequences, FiniteSets, TLC

VARIABLES
    \* ---- parse_field_type (one call) ----
    token,            \* the argument type_text as passed by the caller
    type_text,        \* the local type_text, rewritten step by step
    is_collection, is_map, map_key_type, map_value_type, is_enum,
    ppc,              \* position in parse_field_type
    \* ---- parse_models_from_xml ----
    sections,         \* soup.find_all("section"): the documentation tree
    toc,              \* the href of each link of soup.select("ul.toc li a")
    empty_object_types,
    todo,             \* the elements of empty_object_types not yet iterated
    sec_i,            \* index of the section the loop of line 139 is at
    models,           \* the list of ResourceModel
    \* ---- generate_pydantic_models ----
    enum_models, regular_models, dependencies, result,
    remaining_models, added_models, progress_made,
    for_list, for_i,  \* sorted(list(remaining_models)) and the position in it
    pc,               \* position in main
    \* ---- the field name of one FIELDS row (lines 196-202) ----
    raw_name, field_name_cleaned,
    npc,              \* position in lines 196-202
    \* ---- the rows of one table (lines 163-181 or 188-233) ----
    table_kind,       \* "enum": an ENUM_VALUES table, "fields": a FIELDS table
    table_rows,       \* enum_rows or field_rows
    row_i,            \* index of the row the loop is at
    row_fields,       \* model.fields
    rpc,              \* position in the loop over the rows
    \* ---- get_python_type (one call) ----
    gpt_field,        \* the argument field
    gpt_names,        \* the argument model_names
    gpt_base,         \* the local base_type
    gpt_return,       \* the returned annotation
    gpc,              \* position in get_python_type
    \* ---- the line of one record field (lines 363-379) ----
    field_description,  \* field.description
    description_escaped,\* the local description
    description_lines,
    field_line,       \* the text appended to lines, as its lines
    wpc,              \* position in lines 363-379
    \* ---- google_docs/utils.py: get_fields (one call) ----
    basemodel,        \* the argument: the fields of the pydantic model
    request_dict,     \* what get_dict_request returns
    used_fields,      \* the local fields
    fields_text,      \* the returned text
    fpc               \* position in get_fields

parseVars == <<token, type_text, is_collection, is_map, map_key_type,
               map_value_type, is_enum, ppc>>

docVars == <<sections, toc>>

extractVars == <<empty_object_types, todo, sec_i, models>>

genVars == <<enum_models, regular_models, dependencies, result,
             remaining_models, added_models, progress_made, for_list, for_i>>

normVars == <<raw_name, field_name_cleaned, npc>>

rowVars == <<table_kind, table_rows, row_i, row_fields, rpc>>

typeVars == <<gpt_field, gpt_names, gpt_base, gpt_return, gpc>>

wrapVars == <<field_description, description_escaped, description_lines,
              field_line, wpc>>

utilVars == <<basemodel, request_dict, used_fields, fields_text, fpc>>

\* The statements traced on their own, outside a run of main.
unitVars == <<normVars, rowVars, typeVars, wrapVars, utilVars>>

\* main and the call of parse_field_type traced on its own.
mainVars == <<parseVars, docVars, extractVars, genVars, pc>>

vars == <<mainVars, unitVars>>

----------------------------------------------------------------------------
(* Bounds of the model *)

\* Longest generated type name in the parser's inputs.
MaxNameLen == 2

\* Most section elements in a documentation tree.
MaxSections == 3

----------------------------------------------------------------------------
(* Python values *)

\* Optional[str]: None is the empty tuple, a string s is <<s>>.
None == <<>>
Some(s) == <<s>>

Min(S) == CHOOSE x \in S : \A y \in S : x <= y
Max(S) == CHOOSE x \in S : \A y \in S : x >= y

\* The characters re's \s and str.strip() treat as whitespace, among the
\* characters of the model's texts.
WS == {" "}

IsSpace(c) == c \in WS

\* Literals of the source, as character sequences.
S_brackets == <<"[", "]">>
S_array_of == <<"a","r","r","a","y"," ","o","f">>
S_map      == <<"m","a","p">>
S_key      == <<"k","e","y",":">>
S_value    == <<"v","a","l","u","e",":">>
S_object   == <<"o","b","j","e","c","t">>
S_enum     == <<"e","n","u","m">>
S_Type     == <<"T","y","p","e">>
S_wbr      == <<"<","w","b","r",">">>
S_string   == <<"s","t","r","i","n","g">>

\* The printable ASCII characters in code point order, from 32 (space); the
\* place of the grave accent (96), which no text of the model holds, is "".
CharOrder ==
    <<" ", "!", "\"", "#", "$", "%", "&", "'", "(", ")", "*", "+", ",", "-",
      ".", "/", "0", "1", "2", "3", "4", "5", "6", "7", "8", "9", ":", ";",
      "<", "=", ">", "?", "@", "A", "B", "C", "D", "E", "F", "G", "H", "I",
      "J", "K", "L", "M", "N", "O", "P", "Q", "R", "S", "T", "U", "V", "W",
      "X", "Y", "Z", "[", "\\", "]", "^", "_", "", "a", "b", "c", "d", "e",
      "f", "g", "h", "i", "j", "k", "l", "m", "n", "o", "p", "q", "r", "s",
      "t", "u", "v", "w", "x", "y", "z", "{", "|", "}", "~">>

\* ord(c)
Ord(c) == 31 + CHOOSE i \in 1..Len(CharOrder) : CharOrder[i] = c

IsUpper(c) == Ord(c) >= 65 /\ Ord(c) <= 90
IsLower(c) == Ord(c) >= 97 /\ Ord(c) <= 122

UpperChar(c) == IF IsLower(c) THEN CharOrder[Ord(c) - 32 - 31] ELSE c
LowerChar(c) == IF IsUpper(c) THEN CharOrder[Ord(c) + 32 - 31] ELSE c

\* str.upper(), str.lower()
Upper(s) == [i \in 1..Len(s) |-> UpperChar(s[i])]
Lower(s) == [i \in 1..Len(s) |-> LowerChar(s[i])]

\* a < b for Python strings: by code point, a proper prefix first.
StrLess(a, b) ==
    \E i \in 1..(Len(a) + 1) :
        /\ i <= Len(b)
        /\ \A j \in 1..(i - 1) : a[j] = b[j]
        /\ (i = Len(a) + 1 \/ Ord(a[i]) < Ord(b[i]))

\* s[i..j], empty when j < i.
Sub(s, i, j) == IF j < i THEN <<>> ELSE SubSeq(s, i, j)

\* The literal lit occurs in s at position i.
MatchAt(s, i, lit) ==
    /\ i >= 1
    /\ i + Len(lit) - 1 <= Len(s)
    /\ Sub(s, i, i + Len(lit) - 1) = lit

StartsWith(s, p) == MatchAt(s, 1, p)
EndsWith(s, p) == Len(p) <= Len(s) /\ MatchAt(s, Len(s) - Len(p) + 1, p)
Contains(s, p) == \E i \in 1..(Len(s) + 1) : MatchAt(s, i, p)

\* str.strip()
Strip(s) ==
    LET Keep == {i \in 1..Len(s) : ~IsSpace(s[i])}
    IN  IF Keep = {} THEN <<>> ELSE Sub(s, Min(Keep), Max(Keep))

\* str.replace(old, ""): the occurrences of old, found left to right without
\* overlap, are removed in one pass.
RECURSIVE RemoveFrom(_, _, _)
RemoveFrom(s, i, old) ==
    IF i > Len(s) THEN <<>>
    ELSE IF MatchAt(s, i, old) THEN RemoveFrom(s, i + Len(old), old)
    ELSE <<s[i]>> \o RemoveFrom(s, i + 1, old)

Remove(s, old) == RemoveFrom(s, 1, old)

\* re.sub(r"<[^>]+>", "", s): a "<", at least one character other than ">",
\* and the next ">" are removed, left to right.
RECURSIVE RemoveTagsFrom(_, _)
RemoveTagsFrom(s, i) ==
    IF i > Len(s) THEN <<>>
    ELSE LET Close == {j \in (i + 1)..Len(s) : s[j] = ">"}
         IN  IF s[i] = "<" /\ Close # {} /\ Min(Close) >= i + 2
             THEN RemoveTagsFrom(s, Min(Close) + 1)
             ELSE <<s[i]>> \o RemoveTagsFrom(s, i + 1)

RemoveTags(s) == RemoveTagsFrom(s, 1)

\* The first position at or after i that holds no whitespace (Len(s) + 1 when
\* there is none): where a greedy \s* followed by a non-space literal ends.
SkipWs(s, i) ==
    LET Stop == {j \in i..Len(s) : ~IsSpace(s[j])}
    IN  IF Stop = {} THEN Len(s) + 1 ELSE Min(Stop)

----------------------------------------------------------------------------
(* The regular expressions of the type signature parser *)

\* map\s*\(\s*key:  matched at i: the position after "key:", else 0.
MapHeadEnd(s, i) ==
    IF ~MatchAt(s, i, S_map) THEN 0
    ELSE LET j1 == SkipWs(s, i + 3)
         IN  IF ~MatchAt(s, j1, <<"(">>) THEN 0
             ELSE LET j2 == SkipWs(s, j1 + 1)
                  IN  IF MatchAt(s, j2, S_key) THEN j2 + 4 ELSE 0

\* \s*,\s*value:\s*(?P<value>.+?)\s*\)$  matched at p: the position after
\* "value:", else 0. What follows "value:" must be at least one character
\* and the closing ")" that ends the string.
MapRestAt(s, p) ==
    LET q == SkipWs(s, p)
    IN  IF ~MatchAt(s, q, <<",">>) THEN 0
        ELSE LET r == SkipWs(s, q + 1)
             IN  IF /\ MatchAt(s, r, S_value)
                    /\ Len(s) >= r + 6 + 1
                    /\ s[Len(s)] = ")"
                 THEN r + 6 ELSE 0

\* The ends p of a key group that starts at ks: the rest of the pattern
\* matches at p.
MapKeyEnds(s, ks) == {p \in (ks + 1)..Len(s) : MapRestAt(s, p) # 0}

\* The starts of the key group after "key:" (which ends before a): the greedy
\* \s* takes any number of the spaces that follow.
MapKeyStarts(s, a) == {ks \in a..SkipWs(s, a) : MapKeyEnds(s, ks) # {}}

\* The lazy .+? of the key is as short as a match allows.
MapKeySpanAt(s, ks) == <<ks, Min(MapKeyEnds(s, ks)) - 1>>

\* The greedy \s* after "key:" is as long as a match allows.
MapKeySpanFrom(s, a) ==
    IF a = 0 THEN <<>>
    ELSE IF MapKeyStarts(s, a) = {} THEN <<>>
    ELSE MapKeySpanAt(s, Max(MapKeyStarts(s, a)))

\* The key group's extent for a match that starts at i, as <<first, last>>,
\* or <<>> when the pattern does not match at i.
MapKeySpan(s, i) == MapKeySpanFrom(s, MapHeadEnd(s, i))

\* The two groups, stripped: the value runs to the ")" that ends the string.
MapGroups(s, span) ==
    <<Strip(Sub(s, span[1], span[2])),
      Strip(Sub(s, MapRestAt(s, span[2] + 1), Len(s) - 1))>>

\* re.search takes the leftmost start.
ParseMapAt(s, Starts) ==
    IF Starts = {} THEN None
    ELSE Some(MapGroups(s, MapKeySpan(s, Min(Starts))))

\* _parse_map: None, or Some(<<key_type, value_type>>).
ParseMap(schema) ==
    ParseMapAt(schema, {i \in 1..Len(schema) : MapKeySpan(schema, i) # <<>>})

\* kw\s*\(\s*(?P<inner>[^)]+)\s*\)$  matched at i: the position after "(",
\* else 0. Between that "(" and the ")" that ends the string there is at
\* least one character and no ")".
WrapperAt(s, i, kw) ==
    IF ~MatchAt(s, i, kw) THEN 0
    ELSE LET j == SkipWs(s, i + Len(kw))
             n == Len(s)
         IN  IF /\ MatchAt(s, j, <<"(">>)
                /\ j + 1 <= n - 1
                /\ s[n] = ")"
                /\ \A k \in (j + 1)..(n - 1) : s[k] # ")"
             THEN j + 1 ELSE 0

\* re.search of the wrapper pattern, the inner group stripped: None or Some.
ParseWrapper(schema, kw) ==
    LET Starts == {i \in 1..Len(schema) : WrapperAt(schema, i, kw) # 0}
    IN  IF Starts = {} THEN None
        ELSE Some(Strip(Sub(schema, WrapperAt(schema, Min(Starts), kw),
                            Len(schema) - 1)))

\* _parse_object
ParseObject(schema) == ParseWrapper(schema, S_object)

\* _parse_enum
ParseEnum(schema) == ParseWrapper(schema, S_enum)

----------------------------------------------------------------------------
(* parse_field_type, statement by statement, on the record of its locals *)

PLocals(t) ==
    [type_text |-> t, is_collection |-> FALSE, is_map |-> FALSE,
     map_key_type |-> None, map_value_type |-> None, is_enum |-> FALSE]

\* A variant that removes the angle-bracket spans and does not strip.
PStepCleanNoStrip(st) == [st EXCEPT !.type_text = RemoveTags(st.type_text)]

\* type_text = re.sub(r"<[^>]+>", "", type_text).strip()
PStepClean(st) == [st EXCEPT !.type_text = Strip(RemoveTags(st.type_text))]

\* A variant that tests only the "[]" suffix.
PStepCollectionSuffixOnly(st) ==
    IF EndsWith(st.type_text, S_brackets)
    THEN [st EXCEPT !.is_collection = TRUE,
                    !.type_text = Strip(Remove(Remove(st.type_text, S_brackets),
                                               S_array_of))]
    ELSE st

\* if type_text.endswith("[]") or type_text.startswith("array of"): ...
PStepCollection(st) ==
    IF EndsWith(st.type_text, S_brackets) \/ StartsWith(st.type_text, S_array_of)
    THEN [st EXCEPT !.is_collection = TRUE,
                    !.type_text = Strip(Remove(Remove(st.type_text, S_brackets),
                                               S_array_of))]
    ELSE st

\* A variant that keeps the value's object(...) wrapper.
PStepMapKeepWrapper(st) ==
    IF ParseMap(st.type_text) # None
    THEN [st EXCEPT !.is_map = TRUE,
                    !.map_key_type = Some(ParseMap(st.type_text)[1][1]),
                    !.map_value_type = Some(ParseMap(st.type_text)[1][2])]
    ELSE st

\* Lines 105-107: the value type, its object(...) wrapper removed.
PMapValueType(value_type, object_match) ==
    IF object_match # None THEN object_match ELSE Some(value_type)

\* Lines 102-107
PWithMapMatch(st, map_match) ==
    IF map_match # None
    THEN [st EXCEPT !.is_map = TRUE,
                    !.map_key_type = Some(map_match[1][1]),
                    !.map_value_type =
                        PMapValueType(map_match[1][2], ParseObject(map_match[1][2]))]
    ELSE st

\* map_match = _parse_map(type_text) ...
PStepMap(st) == PWithMapMatch(st, ParseMap(st.type_text))

\* Lines 109-110
PWithObjectMatch(st, object_match) ==
    IF object_match # None THEN [st EXCEPT !.type_text = object_match[1]] ELSE st

\* object_match = _parse_object(type_text) ...
PStepObject(st) == PWithObjectMatch(st, ParseObject(st.type_text))

\* Lines 112-114
PWithEnumMatch(st, enum_match) ==
    IF enum_match # None
    THEN [st EXCEPT !.is_enum = TRUE, !.type_text = enum_match[1]]
    ELSE st

\* enum_match = _parse_enum(type_text) ...
PStepEnum(st) == PWithEnumMatch(st, ParseEnum(st.type_text))

\* The tuple parse_field_type returns, as a record.
ParseFieldType(t) ==
    PStepEnum(PStepObject(PStepMap(PStepCollection(PStepClean(PLocals(t))))))

----------------------------------------------------------------------------
(* The resource extractor: parse_models_from_xml *)

S_hash            == <<"#">>
S_dot             == <<".">>
S_underscore      == <<"_">>
S_str             == <<"s","t","r">>
S_Resource        == <<"R","e","s","o","u","r","c","e",":">>
S_SuggestionState == <<"S","u","g","g","e","s","t","i","o","n","S","t","a","t","e">>
S_no_fields       == <<"T","h","i","s"," ","t","y","p","e"," ","h","a","s"," ",
                       "n","o"," ","f","i","e","l","d","s",".">>

\* class Field
Field(name, type_name, description, coll, map, key, value, enum) ==
    [name |-> name, type_name |-> type_name, description |-> description,
     is_collection |-> coll, is_map |-> map, map_key_type |-> key,
     map_value_type |-> value, is_enum |-> enum]

\* class ResourceModel (the url, which no decision reads, is left out)
ResourceModel(name, description, fields) ==
    [name |-> name, description |-> description, fields |-> fields]

\* re.sub(r"\s+", " ", desc): every run of whitespace becomes one space.
RECURSIVE CollapseWsFrom(_, _)
CollapseWsFrom(s, i) ==
    IF i > Len(s) THEN <<>>
    ELSE IF IsSpace(s[i]) THEN <<" ">> \o CollapseWsFrom(s, SkipWs(s, i))
    ELSE <<s[i]>> \o CollapseWsFrom(s, i + 1)

\* clean_description
CleanDescription(desc) == Strip(RemoveTags(CollapseWsFrom(desc, 1)))

\* A variant that puts the separator before every character but the first.
SeparateAllFrom(s, i) ==
    [k \in 1..(2 * Len(s) - 1) |-> IF k % 2 = 1 THEN s[(k + 1) \div 2] ELSE "_"]

\* re.sub(r"(?<!^)(?=[A-Z])", "_", raw): "_" before every upper-case letter
\* that is not the first character.
RECURSIVE SeparateUpperFrom(_, _)
SeparateUpperFrom(s, i) ==
    IF i > Len(s) THEN <<>>
    ELSE (IF i > 1 /\ IsUpper(s[i]) THEN <<"_", s[i]>> ELSE <<s[i]>>)
             \o SeparateUpperFrom(s, i + 1)

\* str.replace(".", "_")
DotsToUnderscores(s) == [i \in 1..Len(s) |-> IF s[i] = "." THEN "_" ELSE s[i]]

\* The field name of lines 196-202, from the stripped text of the name cell.
NormalizeFieldName(raw) ==
    LET a == Lower(SeparateUpperFrom(raw, 1))
        b == Remove(a, S_brackets)
        c == DotsToUnderscores(b)
    IN  Remove(Remove(c, <<"[">>), <<"]">>)

\* A variant that passes over every row.
RowSkippedAlways(row) == TRUE

\* The tests of lines 165-172: the row of an ENUM_VALUES table is passed
\* over.
EnumRowSkipped(row) ==
    \/ row.th
    \/ row.ncells < 2
    \/ row.value = None \/ row.value[1] = <<>>

\* The tests of lines 191-208: the row of a FIELDS table is passed over.
FieldRowSkipped(row) ==
    \/ row.ncells < 2
    \/ row.name = None \/ row.name[1] = <<>>
    \/ ~row.has_p
    \/ row.type = None \/ row.type[1] = <<>>

\* One row of an ENUM_VALUES table (lines 165-181): None when the row is
\* skipped, else the Field appended.
EnumRowField(row) ==
    IF EnumRowSkipped(row) THEN None
    ELSE Some(Field(Remove(Strip(row.value[1]), S_wbr), S_str,
                    Strip(row.description), FALSE, FALSE, None, None, TRUE))

\* description_paras[1:], cleaned and joined (lines 218-222, 226).
RECURSIVE JoinParas(_, _)
JoinParas(paras, i) ==
    IF i > Len(paras) THEN <<>>
    ELSE (IF paras[i] # <<>> THEN CleanDescription(paras[i]) \o <<" ">>
          ELSE <<>>) \o JoinParas(paras, i + 1)

\* Lines 223-232: the Field of a row whose type has been parsed into t.
FieldOfRow(row, t) ==
    Field(NormalizeFieldName(Strip(row.name[1])), t.type_text,
          Strip(JoinParas(row.paras, 1)), t.is_collection, t.is_map,
          t.map_key_type, t.map_value_type, t.is_enum)

\* One row of a FIELDS table (lines 190-233): None when the row is skipped.
FieldRowField(row) ==
    IF FieldRowSkipped(row) THEN None
    ELSE Some(FieldOfRow(row, ParseFieldType(Strip(row.type[1]))))

\* model.fields after the rows of one table, in row order.
RECURSIVE EnumRowsFields(_, _)
EnumRowsFields(rows, i) ==
    IF i > Len(rows) THEN <<>>
    ELSE EnumRowField(rows[i]) \o EnumRowsFields(rows, i + 1)

\* A variant that collects the rows from the last to the first.
RECURSIVE FieldRowsFieldsReversed(_, _)
FieldRowsFieldsReversed(rows, i) ==
    IF i > Len(rows) THEN <<>>
    ELSE FieldRowsFieldsReversed(rows, i + 1) \o FieldRowField(rows[i])

RECURSIVE FieldRowsFields(_, _)
FieldRowsFields(rows, i) ==
    IF i > Len(rows) THEN <<>>
    ELSE FieldRowField(rows[i]) \o FieldRowsFields(rows, i + 1)

\* Lines 141-145: the section is passed over.
SectionSkipped(sec) ==
    sec.id = <<>> \/ StartsWith(sec.id, <<"/">>) \/ ~sec.h2

\* soup.find("section", {"id": section_id + ".description"}) searches the whole
\* document: the first description sub-section of that id, and the cleaned
\* text of its first paragraph.
SectionDescription(doc, id) ==
    LET Has == {i \in 1..Len(doc) : doc[i].id = id /\ doc[i].description # None}
    IN  IF Has = {} THEN <<>> ELSE CleanDescription(doc[Min(Has)].description[1])

\* Lines 146-155: the heading's text, when there is one, names the model.
SectionModelName(sec) ==
    IF sec.heading # None /\ sec.heading[1] # <<>>
    THEN Strip(Remove(sec.heading[1], S_Resource))
    ELSE sec.id

\* A variant that reads the FIELDS table of every section.
SectionFieldsBoth(sec) ==
    (IF sec.enum # None THEN EnumRowsFields(sec.enum[1], 1) ELSE <<>>)
        \o (IF sec.fields # None
            THEN FieldRowsFields(sec.fields[1], 1) ELSE <<>>)

\* Lines 159-233: the ENUM_VALUES rows, and the FIELDS rows only when the
\* section has no ENUM_VALUES sub-section.
SectionFields(sec) ==
    (IF sec.enum # None THEN EnumRowsFields(sec.enum[1], 1) ELSE <<>>)
        \o (IF sec.fields # None /\ sec.enum = None
            THEN FieldRowsFields(sec.fields[1], 1) ELSE <<>>)

\* The model one section appends (lines 146-234).
SectionModel(doc, sec) ==
    ResourceModel(SectionModelName(sec), SectionDescription(doc, sec.id),
                  SectionFields(sec))

\* href.split("#")[-1]
AfterLastHash(href) ==
    LET H == {i \in 1..Len(href) : href[i] = "#"}
    IN  Sub(href, Max(H) + 1, Len(href))

\* Lines 130-138: the ids of the table of contents kept for completion.
EmptyObjectTypes(links) ==
    {AfterLastHash(h) : h \in
        {l \in links : /\ Contains(l, S_hash)
                       /\ \/ EndsWith(AfterLastHash(l), S_SuggestionState)
                          \/ Contains(AfterLastHash(l), S_Type)}}

\* A variant that appends the placeholder without looking for the name.
WithPlaceholderAlways(ms, empty_type) ==
    Append(ms, ResourceModel(empty_type, S_no_fields, <<>>))

\* Lines 236-240: the list after empty_type has been visited.
WithPlaceholder(ms, empty_type) ==
    IF \E i \in 1..Len(ms) : ms[i].name = empty_type THEN ms
    ELSE Append(ms, ResourceModel(empty_type, S_no_fields, <<>>))

----------------------------------------------------------------------------
(* The code emitter: get_python_type and generate_model_code *)

S_integer  == <<"i","n","t","e","g","e","r">>
S_number   == <<"n","u","m","b","e","r">>
S_boolean  == <<"b","o","o","l","e","a","n">>
S_int      == <<"i","n","t">>
S_float    == <<"f","l","o","a","t">>
S_bool     == <<"b","o","o","l">>
S_Any      == <<"A","n","y">>
S_Optional == <<"O","p","t","i","o","n","a","l">>
S_list     == <<"l","i","s","t">>
S_dict     == <<"d","i","c","t">>
S_UNSPECIFIED == <<"U","N","S","P","E","C","I","F","I","E","D">>

\* type_mapping.get(key, default) of get_python_type
TypeMappingGet(key, default) ==
    CASE key = S_string  -> S_str
      [] key = S_integer -> S_int
      [] key = S_number  -> S_float
      [] key = S_boolean -> S_bool
      [] OTHER -> default

\* name in model_names
InNames(name, model_names) ==
    \E i \in 1..Len(model_names) : model_names[i] = name

\* get_python_type: the annotation's text.
GetPythonType(field, model_names) ==
    IF field.is_enum
    THEN S_Optional \o <<"[">> \o field.type_name \o <<"]">>
    ELSE LET base_type ==
                 IF InNames(field.type_name, model_names) THEN field.type_name
                 ELSE TypeMappingGet(Lower(field.type_name), field.type_name)
         IN  IF field.is_collection
             THEN S_list \o <<"[">> \o base_type \o <<"]">>
             ELSE IF field.is_map
             THEN LET key_type == TypeMappingGet(Lower(field.map_key_type[1]),
                                                 field.map_key_type[1])
                      value_type ==
                          IF InNames(field.map_value_type[1], model_names)
                          THEN field.map_value_type[1]
                          ELSE TypeMappingGet(Lower(field.map_value_type[1]), S_Any)
                  IN  S_dict \o <<"[">> \o key_type \o <<",", " ">>
                             \o value_type \o <<"]">>
             ELSE S_Optional \o <<"[">> \o base_type \o <<"]">>

\* A variant that writes the upper-cased identifier as the value too.
EnumMemberLineUpperValue(field) ==
    <<" ", " ", " ", " ">> \o Upper(field.name) \o <<" ", "=", " ", "\"">>
        \o Upper(field.name) \o <<"\"", " ", " ", "#", " ">> \o field.description

\* f'    {enum_value} = "{field.name}"  # {field.description}' (lines 352-355)
EnumMemberLine(field) ==
    <<" ", " ", " ", " ">> \o Upper(field.name) \o <<" ", "=", " ", "\"">>
        \o field.name \o <<"\"", " ", " ", "#", " ">> \o field.description

\* A test by the suffix of the name alone.
RenderedBySuffixOnly(model) == EndsWith(model.name, S_Type)

\* The test of lines 339-341: the model is rendered as a (str, Enum) class.
RenderedAsEnum(model) ==
    \/ EndsWith(model.name, S_Type)
    \/ /\ \E i \in 1..Len(model.fields) : model.fields[i].is_enum
       /\ Len(model.fields) = 1

\* generate_model_code: the class definition, as its header and the lines of
\* its body. members are the constant lines of an enum, fields the field
\* lines of a record; filler is the line written for an empty body.
GenerateModelCode(model, all_models) ==
    LET model_names == [i \in 1..Len(all_models) |-> all_models[i].name]
    IN  IF RenderedAsEnum(model)
        THEN [class_name |-> model.name, base |-> "str, Enum",
              docstring |-> model.description,
              members |-> [i \in 1..Len(model.fields) |->
                              EnumMemberLine(model.fields[i])],
              fields |-> <<>>,
              filler |-> IF model.fields # <<>> THEN "" ELSE "UNSPECIFIED"]
        ELSE [class_name |-> model.name, base |-> "BaseModel",
              docstring |-> model.description,
              members |-> <<>>,
              fields |-> [i \in 1..Len(model.fields) |->
                             [name |-> model.fields[i].name,
                              field_type |-> GetPythonType(model.fields[i],
                                                           model_names),
                              description |-> model.fields[i].description]],
              filler |-> IF model.fields # <<>> THEN "" ELSE "pass"]

----------------------------------------------------------------------------
(* The dependency resolver: generate_pydantic_models *)

\* The test of lines 257-261: the model goes to enum_models.
ClassifiedEnum(model) ==
    \/ EndsWith(model.name, S_Type)
    \/ /\ model.fields # <<>>
       /\ \E i \in 1..Len(model.fields) : model.fields[i].is_enum
       /\ Len(model.fields) = 1

ClassifiedRegular(model) == ~ClassifiedEnum(model)

\* The names of a list of models, as a set.
NamesOf(ms) == {ms[i].name : i \in 1..Len(ms)}

\* model_dict.get(name): the last model of that name wins (line 266).
ModelDictGet(ms, name) == ms[Max({i \in 1..Len(ms) : ms[i].name = name})]

\* A variant that looks at the type name only, not at the value of a map.
FieldDependenciesNoMap(field, ms, enums) ==
    IF field.type_name \in NamesOf(ms) /\ field.type_name \notin NamesOf(enums)
    THEN {field.type_name} ELSE {}

\* The names one field adds to its model's dependencies (lines 271-280).
FieldDependencies(field, ms, enums) ==
    (IF field.type_name \in NamesOf(ms) /\ field.type_name \notin NamesOf(enums)
     THEN {field.type_name} ELSE {})
        \cup
    (IF /\ field.is_map
        /\ field.map_value_type[1] \in NamesOf(ms)
        /\ field.map_value_type[1] \notin NamesOf(enums)
     THEN {field.map_value_type[1]} ELSE {})

ModelDependencies(model, ms, enums) ==
    UNION {FieldDependencies(model.fields[i], ms, enums) :
               i \in 1..Len(model.fields)}

\* The dict of lines 267-280: dependencies[model.name] = set() starts the
\* entry again for every regular model, so the last one of a name fills it.
Dependencies(ms, enums, regulars) ==
    [n \in NamesOf(regulars) |->
        ModelDependencies(
            regulars[Max({i \in 1..Len(regulars) : regulars[i].name = n})],
            ms, enums)]

\* sorted(list(names))
RECURSIVE SortedNames(_)
SortedNames(S) ==
    IF S = {} THEN <<>>
    ELSE LET m == CHOOSE x \in S : \A y \in S : y = x \/ StrLess(x, y)
         IN  <<m>> \o SortedNames(S \ {m})

\* Two orders that are not sorted: the list as it is, and turned round.
KeptInListOrder(ms) == ms
TurnedRound(ms) == [i \in 1..Len(ms) |-> ms[Len(ms) + 1 - i]]

\* sorted(ms, key=lambda m: m.name): stable, equal names keep their order.
RECURSIVE SortedByName(_)
SortedByName(ms) ==
    IF ms = <<>> THEN <<>>
    ELSE LET First == {i \in 1..Len(ms) :
                          /\ \A j \in 1..Len(ms) : ~StrLess(ms[j].name, ms[i].name)
                          /\ \A j \in 1..(i - 1) : ms[j].name # ms[i].name}
             k == Min(First)
         IN  <<ms[k]>> \o SortedByName(Sub(ms, 1, k - 1) \o Sub(ms, k + 1, Len(ms)))

\* The code of every model of a list, in the list's order.
CodeOfAll(ms, all_models) ==
    [i \in 1..Len(ms) |-> GenerateModelCode(ms[i], all_models)]

----------------------------------------------------------------------------
(* The type tokens the parser is run on *)

S_Status == <<"S","t","a","t","u","s">>
S_Foo    == <<"F","o","o">>

NameChars == {"A", "b", "."}

\* Type names: the documented ones and every short name over NameChars.
TypeNames ==
    {S_string, S_Status, S_Foo}
        \cup UNION {[1..n -> NameChars] : n \in 1..MaxNameLen}

\* wrapper(inner), and the form with a space the documentation also uses.
Wrapped(kw, inner) == kw \o <<"(">> \o inner \o <<")">>
WrappedSp(kw, inner) == kw \o <<" ", "(">> \o inner \o <<")">>

\* map(key: K, value: V)
MapToken(k, v) ==
    S_map \o <<"(">> \o S_key \o <<" ">> \o k \o <<",", " ">> \o S_value
          \o <<" ">> \o v \o <<")">>

\* The same form with the optional whitespace placed differently.
MapTokenLoose(k, v) ==
    S_map \o <<" ", "(">> \o S_key \o k \o <<" ", ",">> \o S_value
          \o v \o <<" ", ")">>

\* A name, bare or in an object(...) or enum(...) wrapper.
ScalarTokens ==
    UNION {{n, Wrapped(S_object, n), WrappedSp(S_object, n),
            Wrapped(S_enum, n), WrappedSp(S_enum, n)} : n \in TypeNames}

MapTokens ==
    UNION {{MapToken(k, v), MapToken(k, Wrapped(S_object, v)),
            MapToken(k, Wrapped(S_enum, v))} : k \in TypeNames, v \in TypeNames}
        \cup {MapTokenLoose(S_string, WrappedSp(S_object, S_Foo)),
              MapTokenLoose(S_string, S_Foo)}

\* T[] and "array of T"
CollectionTokens ==
    UNION {{t \o S_brackets, S_array_of \o <<" ">> \o t} : t \in ScalarTokens}
        \cup {MapToken(S_string, S_Foo) \o S_brackets,
              S_array_of \o <<" ">> \o S_Foo \o S_brackets}

\* Documentation decoration around a token: an angle-bracket span, next to
\* the token or after a space.
Decorated(t) ==
    {t \o S_wbr, S_wbr \o t, t \o <<" ">> \o S_wbr}

PlainTokens == ScalarTokens \cup MapTokens \cup CollectionTokens

Tokens ==
    PlainTokens
        \cup UNION {Decorated(t) : t \in ScalarTokens \cup CollectionTokens}
        \cup Decorated(MapToken(S_string, Wrapped(S_object, S_Foo)))

----------------------------------------------------------------------------
(* The documentation trees the generator is run on *)

N_A     == <<"A">>
N_B     == <<"B">>
N_C     == <<"C">>
N_D     == <<"D">>
N_E     == <<"E">>
N_M     == <<"M">>
N_KType == <<"K","T","y","p","e">>
N_Undoc == <<"U","n","d","o","c">>

\* A row of a FIELDS table: two cells, the name in a code element, the type
\* in the first paragraph, one paragraph of prose.
FieldRow(name, type) ==
    [ncells |-> 2, name |-> Some(name), has_p |-> TRUE, type |-> Some(type),
     paras |-> << <<"d", ".">> >>]

\* A data row of an ENUM_VALUES table.
EnumRow(value) ==
    [th |-> FALSE, ncells |-> 2, value |-> Some(value),
     description |-> <<"v", ".">>]

\* The heading row of a table: th cells only.
EnumHeadRow == [th |-> TRUE, ncells |-> 0, value |-> None, description |-> <<>>]
FieldHeadRow ==
    [ncells |-> 0, name |-> None, has_p |-> FALSE, type |-> None, paras |-> <<>>]

\* A section element: its id, whether it has an h2, the text of the h2's
\* heading span, the first paragraph of its description sub-section, the
\* rows of its ENUM_VALUES table and of its FIELDS table (None: no such
\* sub-section).
Section(id, h2, heading, description, enum, fields) ==
    [id |-> id, h2 |-> h2, heading |-> heading, description |-> description,
     enum |-> enum, fields |-> fields]

RecordSection(id, rows) == Section(id, TRUE, None, None, None, Some(rows))
EnumSection(id, rows) == Section(id, TRUE, None, None, Some(rows), None)

SectionUniverse ==
    { \* A with one field of type B
      RecordSection(N_A, <<FieldRow(<<"b">>, WrappedSp(S_object, N_B))>>),
      \* B with a field of type A, B with a list of C
      RecordSection(N_B, <<FieldRow(<<"a">>, N_A)>>),
      RecordSection(N_B, <<FieldRow(<<"c">>, S_array_of \o <<" ">> \o N_C)>>),
      \* C with a map to A, C with a list of itself
      Section(N_C, TRUE, Some(S_Resource \o <<" ">> \o N_C),
              Some(<<"c", " ", " ", "c">>), None,
              Some(<<FieldHeadRow,
                     FieldRow(<<"a">>, MapToken(S_string, Wrapped(S_object, N_A))),
                     FieldRow(<<"n">>, S_integer)>>)),
      RecordSection(N_C, <<FieldRow(<<"c">>, N_C \o S_brackets)>>),
      \* E as an enum of one literal, and E as a record that refers to an
      \* enum and to a type the documentation does not define
      EnumSection(N_E, <<EnumRow(<<"r","a","n","g","e">>)>>),
      RecordSection(N_E, <<FieldRow(<<"x">>, N_Undoc),
                           FieldRow(<<"k">>, Wrapped(S_enum, N_KType))>>),
      \* enums of two literals, with and without the Type suffix, the first
      \* with the heading row of its table,
      EnumSection(N_KType, <<EnumHeadRow, EnumRow(<<"O","N","E">>),
                             EnumRow(<<"T","w","o">>)>>),
      \* and the second with a FIELDS table beside its ENUM_VALUES table
      Section(N_M, TRUE, None, None,
              Some(<<EnumRow(<<"U","P">>), EnumRow(<<"d","o","w","n">>)>>),
              Some(<<FieldRow(<<"z">>, S_string)>>)),
      \* D whose only field has an enum-wrapped type
      RecordSection(N_D, <<FieldRow(<<"k","T">>, WrappedSp(S_enum, N_KType))>>),
      \* a sub-section element: no h2
      Section(N_A \o <<".", "F">>, FALSE, None, None, None, None) }

DocTrees == UNION {[1..n -> SectionUniverse] : n \in 1..MaxSections}

\* The hrefs of the table of contents.
H_KType == S_hash \o N_KType
H_State == S_hash \o N_B \o S_SuggestionState
H_A     == <<"p">> \o S_hash \o N_A
H_KTypeOfPage == <<"p">> \o H_KType

\* No table of contents, or one with two links to KType, links to
\* BSuggestionState and to A, and a link without a fragment.
TocChoices == {{}, {H_KType, H_KTypeOfPage, H_State, H_A, N_D}}

----------------------------------------------------------------------------
(* The statements traced on their own, at rest *)

\* Lines 196-202 are not being traced.
NormIdle ==
    /\ raw_name = <<>>
    /\ field_name_cleaned = <<>>
    /\ npc = "idle"

\* No table is being read.
RowsIdle ==
    /\ table_kind = "none"
    /\ table_rows = <<>>
    /\ row_i = 1
    /\ row_fields = <<>>
    /\ rpc = "idle"

\* get_python_type is not being traced.
TypeIdle ==
    /\ gpt_field = None
    /\ gpt_names = <<>>
    /\ gpt_base = None
    /\ gpt_return = None
    /\ gpc = "idle"

\* No field line is being written.
WrapIdle ==
    /\ field_description = <<>>
    /\ description_escaped = <<>>
    /\ description_lines = <<>>
    /\ field_line = <<>>
    /\ wpc = "idle"

UtilIdle ==
    /\ basemodel = <<>>
    /\ request_dict = <<>>
    /\ used_fields = <<>>
    /\ fields_text = None
    /\ fpc = "idle"

UnitsIdle == NormIdle /\ RowsIdle /\ TypeIdle /\ WrapIdle /\ UtilIdle

----------------------------------------------------------------------------
(* One call of parse_field_type *)

\* The generator before main() has run.
MainIdle ==
    /\ sections = <<>>
    /\ toc = {}
    /\ empty_object_types = {}
    /\ todo = {}
    /\ sec_i = 1
    /\ models = <<>>
    /\ enum_models = <<>>
    /\ regular_models = <<>>
    /\ dependencies = <<>>
    /\ result = <<>>
    /\ remaining_models = {}
    /\ added_models = {}
    /\ progress_made = FALSE
    /\ for_list = <<>>
    /\ for_i = 1
    /\ pc = "idle"

InitParse ==
    /\ token \in Tokens
    /\ type_text = token
    /\ is_collection = FALSE
    /\ is_map = FALSE
    /\ map_key_type = None
    /\ map_value_type = None
    /\ is_enum = FALSE
    /\ ppc = "clean"
    /\ MainIdle
    /\ UnitsIdle

PLocalsNow ==
    [type_text |-> type_text, is_collection |-> is_collection,
     is_map |-> is_map, map_key_type |-> map_key_type,
     map_value_type |-> map_value_type, is_enum |-> is_enum]

PAssign(st, next) ==
    /\ type_text' = st.type_text
    /\ is_collection' = st.is_collection
    /\ is_map' = st.is_map
    /\ map_key_type' = st.map_key_type
    /\ map_value_type' = st.map_value_type
    /\ is_enum' = st.is_enum
    /\ ppc' = next
    /\ UNCHANGED <<unitVars, token, docVars, extractVars, genVars, pc>>

PClean ==
    /\ ppc = "clean"
    /\ PAssign(PStepClean(PLocalsNow), "collection")

PCollection ==
    /\ ppc = "collection"
    /\ PAssign(PStepCollection(PLocalsNow), "map")

PMap ==
    /\ ppc = "map"
    /\ PAssign(PStepMap(PLocalsNow), "object")

PObject ==
    /\ ppc = "object"
    /\ PAssign(PStepObject(PLocalsNow), "enum")

PEnum ==
    /\ ppc = "enum"
    /\ PAssign(PStepEnum(PLocalsNow), "return")

NextParse == PClean \/ PCollection \/ PMap \/ PObject \/ PEnum

SpecParse == InitParse /\ [][NextParse]_vars

\* The call has returned: the locals are the returned tuple.
PReturned == ppc = "return"

----------------------------------------------------------------------------
(* main: parse_models_from_xml, then generate_pydantic_models *)

\* No call of parse_field_type is being traced.
ParseIdle ==
    /\ token = <<>>
    /\ type_text = <<>>
    /\ is_collection = FALSE
    /\ is_map = FALSE
    /\ map_key_type = None
    /\ map_value_type = None
    /\ is_enum = FALSE
    /\ ppc = "idle"

\* main() starts: nothing has been read.
Init ==
    /\ sections = <<>>
    /\ toc = {}
    /\ empty_object_types = {}
    /\ todo = {}
    /\ sec_i = 1
    /\ models = <<>>
    /\ enum_models = <<>>
    /\ regular_models = <<>>
    /\ dependencies = <<>>
    /\ result = <<>>
    /\ remaining_models = {}
    /\ added_models = {}
    /\ progress_made = FALSE
    /\ for_list = <<>>
    /\ for_i = 1
    /\ pc = "read"
    /\ ParseIdle
    /\ UnitsIdle

\* Lines 411-423, 127-131: the documentation is read and parsed into its
\* section elements and the links of its table of contents.
ReadDocument ==
    /\ pc = "read"
    /\ sections' \in DocTrees
    /\ toc' \in TocChoices
    /\ pc' = "toc"
    /\ UNCHANGED <<unitVars, parseVars, extractVars, genVars>>

\* Lines 130-138: the table of contents is read.
ReadToc ==
    /\ pc = "toc"
    /\ empty_object_types' = EmptyObjectTypes(toc)
    /\ pc' = "sections"
    /\ UNCHANGED <<unitVars, parseVars, docVars, todo, sec_i, models, genVars>>

\* Lines 140-145: a section without an id or an h2 is passed over.
SkipSection ==
    /\ pc = "sections"
    /\ sec_i <= Len(sections)
    /\ SectionSkipped(sections[sec_i])
    /\ sec_i' = sec_i + 1
    /\ UNCHANGED <<unitVars, parseVars, docVars, empty_object_types, todo, models, genVars, pc>>

\* Lines 146-234: one section becomes one model.
ExtractSection ==
    /\ pc = "sections"
    /\ sec_i <= Len(sections)
    /\ ~SectionSkipped(sections[sec_i])
    /\ models' = Append(models, SectionModel(sections, sections[sec_i]))
    /\ sec_i' = sec_i + 1
    /\ UNCHANGED <<unitVars, parseVars, docVars, empty_object_types, todo, genVars, pc>>

\* The loop over the sections ends; the loop of line 235 starts.
EndSections ==
    /\ pc = "sections"
    /\ sec_i > Len(sections)
    /\ todo' = empty_object_types
    /\ pc' = "complete"
    /\ UNCHANGED <<unitVars, parseVars, docVars, empty_object_types, sec_i, models, genVars>>

\* Lines 235-240: one element of the set, in the set's own iteration order.
CompleteStep ==
    /\ pc = "complete"
    /\ \E empty_type \in todo :
           /\ models' = WithPlaceholder(models, empty_type)
           /\ todo' = todo \ {empty_type}
    /\ UNCHANGED <<unitVars, parseVars, docVars, empty_object_types, sec_i, genVars, pc>>

\* Line 241, then main calls generate_pydantic_models(models).
EndComplete ==
    /\ pc = "complete"
    /\ todo = {}
    /\ pc' = "classify"
    /\ UNCHANGED <<unitVars, parseVars, docVars, extractVars, genVars>>

\* Lines 254-264
Classify ==
    /\ pc = "classify"
    /\ enum_models' = SelectSeq(models, ClassifiedEnum)
    /\ regular_models' = SelectSeq(models, ClassifiedRegular)
    /\ pc' = "dependencies"
    /\ UNCHANGED <<unitVars, parseVars, docVars, extractVars, dependencies, result,
                   remaining_models, added_models, progress_made, for_list, for_i>>

\* Lines 265-280
BuildDependencies ==
    /\ pc = "dependencies"
    /\ dependencies' = Dependencies(models, enum_models, regular_models)
    /\ pc' = "enums"
    /\ UNCHANGED <<unitVars, parseVars, docVars, extractVars, enum_models, regular_models,
                   result, remaining_models, added_models, progress_made,
                   for_list, for_i>>

\* Lines 281-295: result holds the class definitions (the import lines that
\* head the text are left out).
EmitEnums ==
    /\ pc = "enums"
    /\ result' = CodeOfAll(SortedByName(enum_models), models)
    /\ remaining_models' = NamesOf(regular_models)
    /\ added_models' = NamesOf(enum_models)
    /\ pc' = "while"
    /\ UNCHANGED <<unitVars, parseVars, docVars, extractVars, enum_models, regular_models,
                   dependencies, progress_made, for_list, for_i>>

\* Lines 296-298: a pass starts over sorted(list(remaining_models)).
WhileEnter ==
    /\ pc = "while"
    /\ remaining_models # {}
    /\ progress_made' = FALSE
    /\ for_list' = SortedNames(remaining_models)
    /\ for_i' = 1
    /\ pc' = "for"
    /\ UNCHANGED <<unitVars, parseVars, docVars, extractVars, enum_models, regular_models,
                   dependencies, result, remaining_models, added_models>>

\* Lines 296, 316
WhileExit ==
    /\ pc = "while"
    /\ remaining_models = {}
    /\ pc' = "done"
    /\ UNCHANGED <<unitVars, parseVars, docVars, extractVars, genVars>>

\* A lookup that finds no dependency.
DependenciesGetNothing(model_name) == {}

\* dependencies.get(model_name, set())
DependenciesGet(model_name) ==
    IF model_name \in DOMAIN dependencies THEN dependencies[model_name] ELSE {}

\* Lines 301-306, 310-315: the model of that name is rendered and the name
\* moves from remaining_models to added_models.
EmitNamed(model_name) ==
    /\ \E model \in {ModelDictGet(models, model_name)} :
           result' = Append(result, GenerateModelCode(model, models))
    /\ added_models' = added_models \cup {model_name}
    /\ remaining_models' = remaining_models \ {model_name}

\* A loop that never forces a name out.
NeverForced == FALSE

\* Line 308: not progress_made and remaining_models
NoProgressMade == ~progress_made /\ remaining_models # {}

\* Lines 299-307: every dependency of the name is in added_models.
ForEmit ==
    /\ pc = "for"
    /\ for_i <= Len(for_list)
    /\ DependenciesGet(for_list[for_i]) \subseteq added_models
    /\ \E model_name \in {for_list[for_i]} : EmitNamed(model_name)
    /\ progress_made' = TRUE
    /\ for_i' = for_i + 1
    /\ UNCHANGED <<unitVars, parseVars, docVars, extractVars, enum_models, regular_models,
                   dependencies, for_list, pc>>

\* Line 300 is false: the name stays.
ForSkip ==
    /\ pc = "for"
    /\ for_i <= Len(for_list)
    /\ ~(DependenciesGet(for_list[for_i]) \subseteq added_models)
    /\ for_i' = for_i + 1
    /\ UNCHANGED <<unitVars, parseVars, docVars, extractVars, enum_models, regular_models,
                   dependencies, result, remaining_models, added_models,
                   progress_made, for_list, pc>>

\* A choice of the last name of the sorted list.
ForcedNameLast ==
    SortedNames(remaining_models)[Cardinality(remaining_models)]

\* Line 309: sorted(list(remaining_models))[0]
ForcedName == SortedNames(remaining_models)[1]

\* Lines 308-315: the pass emitted nothing, the smallest name is emitted.
ForceEmit ==
    /\ pc = "for"
    /\ for_i > Len(for_list)
    /\ NoProgressMade
    /\ \E model_name \in {ForcedName} : EmitNamed(model_name)
    /\ pc' = "while"
    /\ UNCHANGED <<unitVars, parseVars, docVars, extractVars, enum_models, regular_models,
                   dependencies, progress_made, for_list, for_i>>

\* Line 308 is false: the pass is over.
EndPass ==
    /\ pc = "for"
    /\ for_i > Len(for_list)
    /\ ~NoProgressMade
    /\ pc' = "while"
    /\ UNCHANGED <<unitVars, parseVars, docVars, extractVars, genVars>>

Next ==
    \/ ReadDocument
    \/ ReadToc
    \/ SkipSection
    \/ ExtractSection
    \/ EndSections
    \/ CompleteStep
    \/ EndComplete
    \/ Classify
    \/ BuildDependencies
    \/ EmitEnums
    \/ WhileEnter
    \/ WhileExit
    \/ ForEmit
    \/ ForSkip
    \/ ForceEmit
    \/ EndPass

Spec == Init /\ [][Next]_vars

\* The statements of the ordering loop (lines 296-316).
LoopStep ==
    WhileEnter \/ WhileExit \/ ForEmit \/ ForSkip \/ ForceEmit \/ EndPass

\* The loop runs on: no statement of it waits.
FairSpec == Spec /\ WF_vars(LoopStep)

\* generate_pydantic_models has returned.
Done == pc = "done"

----------------------------------------------------------------------------
(* Properties of parse_field_type (checked under SpecParse) *)

\* A collection marker as line 98 tests it.
HasCollectionMarker(t) == EndsWith(t, S_brackets) \/ StartsWith(t, S_array_of)

NoMarkerLeft(t) == ~Contains(t, S_brackets) /\ ~Contains(t, S_array_of)

\* No structural marker matches t.
NoStructuralMarker(t) ==
    /\ ~HasCollectionMarker(t)
    /\ ParseMap(t) = None
    /\ ParseObject(t) = None
    /\ ParseEnum(t) = None

\* Every token map(key: K, value: object(V)) with its K and V.
MapObjectForms ==
    {<<k, v, MapToken(k, Wrapped(S_object, v))>> : k \in TypeNames, v \in TypeNames}

\* C7: for every token of the form map(key: K, value: object(V)) the call
\* returns is_map = true, map_key_type = K and map_value_type = V, the
\* object wrapper of the value removed.
C7_MapObjectValueUnwrapped ==
    PReturned =>
        \A f \in MapObjectForms :
            token = f[3] =>
                /\ is_map = TRUE
                /\ map_key_type = Some(f[1])
                /\ map_value_type = Some(f[2])

C7_Witness ==
    /\ PReturned
    /\ token = MapToken(<<"A", "b">>, Wrapped(S_object, S_Foo))
    /\ is_map = TRUE
    /\ map_key_type = Some(<<"A", "b">>)
    /\ map_value_type = Some(S_Foo)

\* C8 as stated: a token that ends in "[]" or starts with "array of" gives
\* is_collection = true and a base name without the marker; a token with
\* neither marker gives is_collection = false.
C8_Original ==
    PReturned =>
        /\ HasCollectionMarker(token) => is_collection /\ NoMarkerLeft(type_text)
        /\ ~HasCollectionMarker(token) => ~is_collection

\* C8, amended: the markers are tested on the token after its angle-bracket
\* spans are removed and it is stripped. Such a token with a marker gives
\* is_collection = true and a base name without the markers; one without
\* gives is_collection = false.
C8_CollectionMarkerOnCleanedToken ==
    PReturned =>
        LET cleaned == Strip(RemoveTags(token))
        IN  /\ HasCollectionMarker(cleaned) =>
                is_collection /\ NoMarkerLeft(type_text)
            /\ ~HasCollectionMarker(cleaned) => ~is_collection
            /\ HasCollectionMarker(token) => is_collection

C8_Witness ==
    /\ PReturned
    /\ token = S_Foo \o S_brackets \o S_wbr
    /\ ~HasCollectionMarker(token)
    /\ is_collection
    /\ type_text = S_Foo

\* C9 as stated: map(key: string, value: enum(Status)) gives is_map = true,
\* the value type unwrapped to "Status" and the enum flag set.
C9_Original ==
    (PReturned /\ token = MapToken(S_string, Wrapped(S_enum, S_Status))) =>
        /\ is_map = TRUE
        /\ map_value_type = Some(S_Status)
        /\ is_enum = TRUE

\* C10 as stated: a token in which no structural marker matches is returned
\* as it is, with every flag false and no map key or value type.
C10_Original ==
    (PReturned /\ NoStructuralMarker(token)) =>
        /\ type_text = token
        /\ ~is_collection /\ ~is_map /\ ~is_enum
        /\ map_key_type = None /\ map_value_type = None

\* C10, amended: when no structural marker matches the token with its
\* angle-bracket spans removed and its outer whitespace stripped, the call
\* returns that cleaned token as the base type name, with every flag false
\* and no map key or value type.
C10_OpaqueTokenCleaned ==
    LET cleaned == Strip(RemoveTags(token))
    IN  (PReturned /\ NoStructuralMarker(cleaned)) =>
            /\ type_text = cleaned
            /\ ~is_collection /\ ~is_map /\ ~is_enum
            /\ map_key_type = None /\ map_value_type = None

C10_Witness ==
    /\ PReturned
    /\ token = S_Status \o <<" ">> \o S_wbr
    /\ NoStructuralMarker(token)
    /\ type_text = S_Status
    /\ ~is_collection /\ ~is_map /\ ~is_enum

----------------------------------------------------------------------------
(* Properties of generate_pydantic_models (checked under Spec and FairSpec) *)

\* The names of the class definitions written so far, in output order.
EmittedNames == [i \in 1..Len(result) |-> result[i].class_name]

\* The model the i-th definition of the output renders: the enum block
\* (lines 290-292) renders sorted(enum_models), the loop renders
\* model_dict[name] (lines 301, 310).
EmittedModel(i) ==
    IF i <= Len(enum_models) THEN SortedByName(enum_models)[i]
    ELSE ModelDictGet(models, result[i].class_name)

\* The names the ordering loop has emitted, in order.
LoopNames == Sub(EmittedNames, Len(enum_models) + 1, Len(result))

\* The place of a name in the loop's output (0: not emitted by the loop).
LoopPos(n) ==
    LET P == {i \in 1..Len(LoopNames) : LoopNames[i] = n}
    IN  IF P = {} THEN 0 ELSE Min(P)

\* No two models of the input list share a name.
UniquelyNamed ==
    \A i, j \in 1..Len(models) : i # j => models[i].name # models[j].name

\* The dependency graph has no cycle: every non-empty set of its names has a
\* name that depends on none of the set (so no self-reference either).
Acyclic ==
    \A S \in SUBSET (DOMAIN dependencies) :
        S # {} => \E n \in S : dependencies[n] \cap S = {}

\* C1 as stated: in the output every definition of an enum-kind model comes
\* strictly before every definition of a record-kind model.
C1_Original ==
    \A i, j \in 1..Len(result) :
        (ClassifiedEnum(EmittedModel(i)) /\ ClassifiedRegular(EmittedModel(j)))
            => i < j

\* C2: when the dependency graph is acyclic, at the end every name the loop
\* emitted comes after every name it depends on: a model A whose one field
\* has type B, B not referring to A, is emitted as B, A.
C2_DependenciesFirstWhenAcyclic ==
    (Done /\ Acyclic) =>
        \A n \in DOMAIN dependencies :
            /\ LoopPos(n) > 0
            /\ \A d \in dependencies[n] : LoopPos(d) > 0 /\ LoopPos(d) < LoopPos(n)

C2_Witness ==
    /\ Done
    /\ Acyclic
    /\ N_A \in DOMAIN dependencies /\ N_B \in DOMAIN dependencies
    /\ dependencies[N_A] = {N_B}
    /\ dependencies[N_B] = {}
    /\ LoopNames = <<N_B, N_A>>

\* The definitions of one model in the output.
DefinitionsOf(model) ==
    {i \in 1..Len(result) : result[i] = GenerateModelCode(model, models)}

\* Every record-kind model has been emitted, and under its name exactly one
\* definition.
EachRecordEmittedOnce ==
    \A k \in 1..Len(regular_models) :
        /\ DefinitionsOf(regular_models[k]) # {}
        /\ Cardinality({i \in 1..Len(result) :
                           result[i].class_name = regular_models[k].name}) = 1

\* C3: the ordering loop, once entered, terminates, whatever the dependency
\* graph (a cyclic pair, a longer cycle, a self-reference). Every pass of the
\* while loop leaves remaining_models smaller than the pass found it, and
\* when no two models share a name every record-kind model has been emitted
\* exactly once at the exit.
C3_LoopTerminatesEachRecordOnce ==
    /\ (pc = "while") ~> Done
    /\ [][(pc = "for" /\ pc' = "while")
              => Cardinality(remaining_models') < Len(for_list)]_vars
    /\ [](Done => remaining_models = {})
    /\ []((Done /\ UniquelyNamed) => EachRecordEmittedOnce)

C3_Witness ==
    /\ Done
    /\ UniquelyNamed
    /\ N_A \in DOMAIN dependencies /\ N_B \in DOMAIN dependencies
    /\ dependencies[N_A] = {N_B}
    /\ dependencies[N_B] = {N_A}
    /\ LoopNames = <<N_A, N_B>>

\* C4 as stated: no class name is defined twice in the output.
C4_Original ==
    \A i, j \in 1..Len(result) :
        i # j => result[i].class_name # result[j].class_name

\* The names an annotation leaves to be resolved.
PrimitiveNames == {S_str, S_int, S_float, S_bool, S_Any}

\* The text between the first "[" and the closing "]" of an annotation.
AnnotationInner(a) ==
    Sub(a, Min({i \in 1..Len(a) : a[i] = "["}) + 1, Len(a) - 1)

\* The type name an annotation refers to: X of Optional[X] and list[X], the
\* value type V of dict[K, V].
AnnotationTypeName(a) ==
    IF StartsWith(a, S_dict \o <<"[">>)
    THEN Sub(AnnotationInner(a),
             Min({i \in 1..Len(AnnotationInner(a)) :
                     MatchAt(AnnotationInner(a), i, <<",", " ">>)}) + 2,
             Len(AnnotationInner(a)))
    ELSE AnnotationInner(a)

\* C5 as stated: at the end every non-primitive type name in the annotation
\* of an emitted record field is the name of exactly one emitted definition.
C5_Original ==
    Done =>
        \A i \in 1..Len(result) :
            \A k \in 1..Len(result[i].fields) :
                AnnotationTypeName(result[i].fields[k].field_type)
                        \notin PrimitiveNames
                    => Cardinality({j \in 1..Len(result) :
                           result[j].class_name =
                               AnnotationTypeName(result[i].fields[k].field_type)})
                       = 1

\* The text in front of the value of a constant line.
S_assign_quote == <<" ", "=", " ", "\"">>

\* Where the value of a constant line starts.
MemberValueStart(line) ==
    Min({i \in 1..Len(line) : MatchAt(line, i, S_assign_quote)}) + 4

\* The identifier of a constant line of an enum class, read back from the
\* emitted text: what stands between the indentation and " = ".
MemberIdentifier(line) == Sub(line, 5, MemberValueStart(line) - 5)

\* The string value of a constant line, read back from the emitted text: what
\* stands between the quotes.
MemberValue(line) ==
    Sub(line, MemberValueStart(line),
        Min({i \in MemberValueStart(line)..Len(line) : line[i] = "\""}) - 1)

\* The literal texts read from the ENUM_VALUES rows of a section.
LiteralsRead(sec) ==
    [k \in 1..Len(EnumRowsFields(sec.enum[1], 1)) |->
        EnumRowsFields(sec.enum[1], 1)[k].name]

\* The sections with an ENUM_VALUES table whose model is emitted as an enum.
EnumSectionsEmitted ==
    {i \in 1..Len(sections) :
        /\ ~SectionSkipped(sections[i])
        /\ sections[i].enum # None
        /\ RenderedAsEnum(SectionModel(sections, sections[i]))}

\* The constant lines of a definition give back these literals: every value
\* is the literal, every identifier the literal in upper case.
GivesBack(code, literals) ==
    /\ code.base = "str, Enum"
    /\ Len(code.members) = Len(literals)
    /\ \A k \in 1..Len(literals) :
           /\ MemberValue(code.members[k]) = literals[k]
           /\ MemberIdentifier(code.members[k]) = Upper(literals[k])

\* C6: at the end, for every section with an ENUM_VALUES table whose model is
\* emitted as an enum, the output has a definition of that name; in every
\* definition of that model the value of each constant is the literal text
\* read from the row, and its identifier is that text in upper case.
C6_EnumLiteralRoundTrip ==
    Done =>
        \A s \in EnumSectionsEmitted :
            /\ DefinitionsOf(SectionModel(sections, sections[s])) # {}
            /\ \A j \in DefinitionsOf(SectionModel(sections, sections[s])) :
                   GivesBack(result[j], LiteralsRead(sections[s]))

C6_Witness ==
    /\ Done
    /\ \E s \in EnumSectionsEmitted :
           /\ sections[s].enum[1][1].value = Some(<<"r","a","n","g","e">>)
           /\ \E j \in DefinitionsOf(SectionModel(sections, sections[s])) :
                  /\ MemberIdentifier(result[j].members[1]) = <<"R","A","N","G","E">>
                  /\ MemberValue(result[j].members[1]) = <<"r","a","n","g","e">>

----------------------------------------------------------------------------
(* The field name of one FIELDS row: lines 196-202 on their own *)

\* Longest raw field name.
MaxFieldNameLen == 3

\* The characters of a raw field name: letters of both cases and the
\* characters the normalisation rewrites.
FieldNameChars == {"a", "B", ".", "[", "]", "_"}

RawFieldNames == UNION {[1..n -> FieldNameChars] : n \in 1..MaxFieldNameLen}

\* Neither main nor parse_field_type runs.
RestIdle == MainIdle /\ ParseIdle

InitNorm ==
    /\ raw_name \in RawFieldNames
    /\ field_name_cleaned = <<>>
    /\ npc = "separate"
    /\ RestIdle
    /\ RowsIdle /\ TypeIdle /\ WrapIdle /\ UtilIdle

\* Lines 197-199
NSeparate ==
    /\ npc = "separate"
    /\ field_name_cleaned' = Lower(SeparateUpperFrom(raw_name, 1))
    /\ npc' = "pairs"
    /\ UNCHANGED <<raw_name, mainVars, utilVars, rowVars, typeVars, wrapVars>>

\* Line 200
NPairs ==
    /\ npc = "pairs"
    /\ field_name_cleaned' = Remove(field_name_cleaned, S_brackets)
    /\ npc' = "dots"
    /\ UNCHANGED <<raw_name, mainVars, utilVars, rowVars, typeVars, wrapVars>>

\* Line 201
NDots ==
    /\ npc = "dots"
    /\ field_name_cleaned' = DotsToUnderscores(field_name_cleaned)
    /\ npc' = "rest"
    /\ UNCHANGED <<raw_name, mainVars, utilVars, rowVars, typeVars, wrapVars>>

\* Line 202
NRest ==
    /\ npc = "rest"
    /\ field_name_cleaned' = Remove(Remove(field_name_cleaned, <<"[">>), <<"]">>)
    /\ npc' = "done"
    /\ UNCHANGED <<raw_name, mainVars, utilVars, rowVars, typeVars, wrapVars>>

NextNorm == NSeparate \/ NPairs \/ NDots \/ NRest

SpecNorm == InitNorm /\ [][NextNorm]_vars

\* C11: the field name lines 196-202 leave is the normalisation of the raw
\* name, and normalising it once more gives the same name.
C11_NormalizeIdempotent ==
    npc = "done" =>
        /\ field_name_cleaned = NormalizeFieldName(raw_name)
        /\ NormalizeFieldName(field_name_cleaned) = field_name_cleaned

C11_Witness ==
    /\ npc = "done"
    /\ raw_name = <<"a", "B", ".">>
    /\ field_name_cleaned = <<"a", "_", "b", "_">>
    /\ NormalizeFieldName(field_name_cleaned) = field_name_cleaned

----------------------------------------------------------------------------
(* Properties of the extractor, the classification and the emitted kinds
   (checked under Spec) *)

SectionExtracted(sec) == ~SectionSkipped(sec)

\* The sections that became models: models[i] is extracted from the i-th of
\* them, and the models after these are the completer's placeholders.
ExtractedSections == SelectSeq(sections, SectionExtracted)

\* The classification has run.
Classified == pc \notin {"read", "toc", "sections", "complete", "classify"}

\* models[i] is in the list ms.
InList(model, ms) == \E k \in 1..Len(ms) : ms[k] = model

\* models[i] was read from an ENUM_VALUES table.
FromEnumTable(i) ==
    i <= Len(ExtractedSections) /\ ExtractedSections[i].enum # None

\* models[i] was read from a FIELDS table.
FromFieldsTable(i) ==
    /\ i <= Len(ExtractedSections)
    /\ ExtractedSections[i].enum = None
    /\ ExtractedSections[i].fields # None

\* C12 as stated: a model is in enum_models exactly when its name ends with
\* "Type" or it has exactly one field and that field is an enum literal, a
\* value row of an ENUM_VALUES table; every other model is in regular_models.
C12_Original ==
    Classified =>
        \A i \in 1..Len(models) :
            /\ InList(models[i], enum_models) <=>
                   \/ EndsWith(models[i].name, S_Type)
                   \/ Len(models[i].fields) = 1 /\ FromEnumTable(i)
            /\ InList(models[i], regular_models) <=>
                   ~InList(models[i], enum_models)

\* C13 as stated: at the end every model read from an ENUM_VALUES table is
\* emitted as a (str, Enum) class and every model read from a FIELDS table as
\* a BaseModel class.
C13_Original ==
    Done =>
        \A i \in 1..Len(models) :
            \A j \in DefinitionsOf(models[i]) :
                /\ FromEnumTable(i) => result[j].base = "str, Enum"
                /\ FromFieldsTable(i) => result[j].base = "BaseModel"

\* The ids the links of the table of contents refer to: what follows the
\* last "#" of an href that has one.
ReferenceIds == {AfterLastHash(h) : h \in {l \in toc : Contains(l, S_hash)}}

\* The reference ids the completer's heuristic keeps.
HeuristicIds ==
    {id \in ReferenceIds : EndsWith(id, S_SuggestionState) \/ Contains(id, S_Type)}

\* The names of the models the sections gave.
ExtractedNames == {models[i].name : i \in 1..Len(ExtractedSections)}

\* The places of the placeholders in models.
PlaceholderPlaces == (Len(ExtractedSections) + 1)..Len(models)

\* C14: when the completer has run, the list holds the extracted models as
\* the sections gave them, in their order, followed by exactly one
\* placeholder (no fields, description "This type has no fields.") for each
\* reference id of the table of contents that ends with "SuggestionState" or
\* contains "Type" and names no extracted model, and by nothing else.
C14_CompleterAddsPlaceholders ==
    pc = "classify" =>
        /\ Len(models) >= Len(ExtractedSections)
        /\ \A i \in 1..Len(ExtractedSections) :
               models[i] = SectionModel(sections, ExtractedSections[i])
        /\ \A i \in PlaceholderPlaces :
               /\ models[i] = ResourceModel(models[i].name, S_no_fields, <<>>)
               /\ models[i].name \in HeuristicIds \ ExtractedNames
        /\ \A id \in HeuristicIds \ ExtractedNames :
               Cardinality({i \in PlaceholderPlaces : models[i].name = id}) = 1

C14_Witness ==
    /\ pc = "classify"
    /\ toc # {}
    /\ N_KType \in ExtractedNames
    /\ N_A \notin ExtractedNames
    /\ Len(models) = Len(ExtractedSections) + 1
    /\ models[Len(models)] =
           ResourceModel(N_B \o S_SuggestionState, S_no_fields, <<>>)

\* C15 as stated: at the end every placeholder is in regular_models and is
\* emitted as a BaseModel class with no fields.
C15_Original ==
    Done =>
        \A i \in PlaceholderPlaces :
            /\ InList(models[i], regular_models)
            /\ \A j \in DefinitionsOf(models[i]) :
                   /\ result[j].base = "BaseModel"
                   /\ result[j].fields = <<>>
                   /\ result[j].filler = "pass"

\* A row of an ENUM_VALUES table, of a FIELDS table, that is not skipped.
EnumRowKept(row) == ~EnumRowSkipped(row)
FieldRowKept(row) == ~FieldRowSkipped(row)

\* The names the data rows of a section's table give, in row order: the
\* literals of an ENUM_VALUES table, else the normalised names of a FIELDS
\* table.
DataRowNames(sec) ==
    IF sec.enum # None
    THEN [k \in 1..Len(SelectSeq(sec.enum[1], EnumRowKept)) |->
             Remove(Strip(SelectSeq(sec.enum[1], EnumRowKept)[k].value[1]), S_wbr)]
    ELSE IF sec.fields # None
    THEN [k \in 1..Len(SelectSeq(sec.fields[1], FieldRowKept)) |->
             NormalizeFieldName(
                 Strip(SelectSeq(sec.fields[1], FieldRowKept)[k].name[1]))]
    ELSE <<>>

\* The names of the entries of a class definition, in the order written: the
\* values of the constants of an enum, the field names of a record.
EntryNames(code) ==
    IF code.base = "str, Enum"
    THEN [k \in 1..Len(code.members) |-> MemberValue(code.members[k])]
    ELSE [k \in 1..Len(code.fields) |-> code.fields[k].name]

\* C16: at the end, in every definition of an extracted model the fields, or
\* the constants, are those of the data rows of its table that were not
\* skipped, in the order of the rows, none dropped and none twice.
C16_FieldOrderPreserved ==
    Done =>
        \A i \in 1..Len(ExtractedSections) :
            \A j \in DefinitionsOf(models[i]) :
                EntryNames(result[j]) = DataRowNames(ExtractedSections[i])

C16_Witness ==
    /\ Done
    /\ \E i \in 1..Len(ExtractedSections) :
           /\ ExtractedSections[i].id = N_C
           /\ ExtractedSections[i].fields # None
           /\ Len(ExtractedSections[i].fields[1]) = 3
           /\ \E j \in DefinitionsOf(models[i]) :
                  EntryNames(result[j]) = << <<"a">>, <<"n">> >>
    /\ \E i \in 1..Len(ExtractedSections) :
           \E j \in DefinitionsOf(models[i]) :
               EntryNames(result[j]) = << <<"x">>, <<"k">> >>

----------------------------------------------------------------------------
(* The rows of one table: the loops of lines 164-181 and 189-233 on their own *)

\* Most rows of a table.
MaxRows == 3

\* The rows of a FIELDS table: two data rows, a heading row, a row of one
\* cell, a row without a name cell, one whose name is empty, one without a
\* first paragraph, one without a type cell.
FieldRowUniverse ==
    { FieldRow(<<"b">>, S_string),
      FieldRow(<<"a", "B">>, N_A \o S_brackets),
      FieldHeadRow,
      [FieldRow(<<"c">>, S_string) EXCEPT !.ncells = 1],
      [FieldRow(<<"c">>, S_string) EXCEPT !.name = None],
      [FieldRow(<<"c">>, S_string) EXCEPT !.name = Some(<<>>)],
      [FieldRow(<<"c">>, S_string) EXCEPT !.has_p = FALSE, !.type = None,
                                          !.paras = <<>>],
      [FieldRow(<<"c">>, S_string) EXCEPT !.type = None] }

\* The rows of an ENUM_VALUES table: two data rows, a heading row, a row of
\* one cell, a row without a value cell, one whose value is empty.
EnumRowUniverse ==
    { EnumRow(<<"U", "P">>),
      EnumRow(<<"d", "o", "w", "n">>),
      EnumHeadRow,
      [EnumRow(<<"X">>) EXCEPT !.ncells = 1],
      [EnumRow(<<"X">>) EXCEPT !.value = None],
      [EnumRow(<<"X">>) EXCEPT !.value = Some(<<>>)] }

Tables(universe) == UNION {[1..n -> universe] : n \in 1..MaxRows}

InitRows ==
    /\ \/ table_kind = "enum" /\ table_rows \in Tables(EnumRowUniverse)
       \/ table_kind = "fields" /\ table_rows \in Tables(FieldRowUniverse)
    /\ row_i = 1
    /\ row_fields = <<>>
    /\ rpc = "rows"
    /\ RestIdle
    /\ NormIdle /\ TypeIdle /\ WrapIdle /\ UtilIdle

\* Lines 165-172: continue
EnumRowSkip ==
    /\ rpc = "rows" /\ table_kind = "enum" /\ row_i <= Len(table_rows)
    /\ EnumRowSkipped(table_rows[row_i]) = TRUE
    /\ row_i' = row_i + 1
    /\ UNCHANGED <<table_kind, table_rows, row_fields, rpc,
                   mainVars, utilVars, normVars, typeVars, wrapVars>>

\* Lines 173-181
EnumRowAppend ==
    /\ rpc = "rows" /\ table_kind = "enum" /\ row_i <= Len(table_rows)
    /\ ~EnumRowSkipped(table_rows[row_i])
    /\ row_fields' = row_fields \o EnumRowField(table_rows[row_i])
    /\ row_i' = row_i + 1
    /\ UNCHANGED <<table_kind, table_rows, rpc,
                   mainVars, utilVars, normVars, typeVars, wrapVars>>

\* Lines 191-208: continue
FieldRowSkip ==
    /\ rpc = "rows" /\ table_kind = "fields" /\ row_i <= Len(table_rows)
    /\ FieldRowSkipped(table_rows[row_i]) = TRUE
    /\ row_i' = row_i + 1
    /\ UNCHANGED <<table_kind, table_rows, row_fields, rpc,
                   mainVars, utilVars, normVars, typeVars, wrapVars>>

\* Lines 196-233
FieldRowAppend ==
    /\ rpc = "rows" /\ table_kind = "fields" /\ row_i <= Len(table_rows)
    /\ ~FieldRowSkipped(table_rows[row_i])
    /\ row_fields' = row_fields \o FieldRowField(table_rows[row_i])
    /\ row_i' = row_i + 1
    /\ UNCHANGED <<table_kind, table_rows, rpc,
                   mainVars, utilVars, normVars, typeVars, wrapVars>>

\* The loop over the rows is over.
RowsEnd ==
    /\ rpc = "rows" /\ row_i > Len(table_rows)
    /\ rpc' = "done"
    /\ UNCHANGED <<table_kind, table_rows, row_i, row_fields,
                   mainVars, utilVars, normVars, typeVars, wrapVars>>

NextRows ==
    EnumRowSkip \/ EnumRowAppend \/ FieldRowSkip \/ FieldRowAppend \/ RowsEnd

SpecRows == InitRows /\ [][NextRows]_vars

\* A malformed row: fewer than two cells, no name (or value) cell, no first
\* paragraph, no type cell.
Malformed(r) ==
    \/ r.ncells < 2
    \/ table_kind = "enum" /\ r.value = None
    \/ table_kind = "fields" /\ (r.name = None \/ ~r.has_p \/ r.type = None)

WellFormed(r) == ~Malformed(r)

\* A row with all its parts and a text in each.
Complete(r) ==
    /\ WellFormed(r)
    /\ \/ table_kind = "enum" /\ ~r.th /\ r.value[1] # <<>>
       \/ table_kind = "fields" /\ r.name[1] # <<>> /\ r.type[1] # <<>>

\* The fields the rows of a table give.
TableFields(t) ==
    IF table_kind = "enum" THEN EnumRowsFields(t, 1) ELSE FieldRowsFields(t, 1)

\* C20: when the loop over the rows of a table is over, the fields are those
\* the table gives with its malformed rows (fewer than two cells, no name
\* cell, no first paragraph, no type cell) taken out, one field for each
\* complete row: a malformed row gives no field and changes no other.
C20_MalformedRowSkipped ==
    rpc = "done" =>
        /\ row_fields = TableFields(SelectSeq(table_rows, WellFormed))
        /\ Len(row_fields) = Len(SelectSeq(table_rows, Complete))

C20_Witness ==
    /\ rpc = "done"
    /\ table_kind = "fields"
    /\ Len(table_rows) = 3
    /\ Malformed(table_rows[2]) /\ table_rows[2].ncells = 2
    /\ Len(row_fields) = 2
    /\ row_fields[1].name = <<"a", "_", "b">>
    /\ row_fields[2].name = <<"b">>

----------------------------------------------------------------------------
(* get_python_type on its own: lines 384-407, statement by statement *)

\* The type names of the cells: the four primitives, one written with a
\* capital, two documented models and an undocumented one.
TypeBaseNames ==
    {S_string, S_integer, S_number, S_boolean,
     <<"S","t","r","i","n","g">>, N_A, N_KType, N_Undoc}

\* The texts of a type cell over one name: bare, the collection forms, the
\* object and enum wrappers, and maps to the name.
TypeTextsOf(b) ==
    { b,
      b \o S_brackets,
      S_array_of \o <<" ">> \o b,
      S_object \o <<" ", "(">> \o b \o <<")">>,
      S_object \o <<" ", "(">> \o b \o <<")">> \o S_brackets,
      S_enum \o <<"(">> \o b \o <<")">>,
      S_enum \o <<"(">> \o b \o <<")">> \o S_brackets,
      S_array_of \o <<" ">> \o S_enum \o <<" ", "(">> \o b \o <<")">>,
      S_map \o <<"(">> \o S_key \o <<" ">> \o S_string \o <<",", " ">>
            \o S_value \o <<" ">> \o b \o <<")">>,
      S_map \o <<" ", "(">> \o S_key \o <<" ">> \o S_integer \o <<",", " ">>
            \o S_value \o <<" ">> \o S_object \o <<" ", "(">> \o b
            \o <<")", ")">> }

TypeTexts == UNION {TypeTextsOf(b) : b \in TypeBaseNames}

\* The Field a FIELDS row with the type cell t gives (lines 209-232).
FieldOfType(t) ==
    Field(<<"f">>, t.type_text, <<>>, t.is_collection, t.is_map,
          t.map_key_type, t.map_value_type, t.is_enum)

\* model_names: the names of the documented models.
ModelNameLists == {<<>>, <<N_A>>, <<N_KType>>, <<N_A, N_KType>>}

InitType ==
    /\ gpt_field \in {Some(FieldOfType(ParseFieldType(t))) : t \in TypeTexts}
    /\ gpt_names \in ModelNameLists
    /\ gpt_base = None
    /\ gpt_return = None
    /\ gpc = "start"
    /\ RestIdle
    /\ NormIdle /\ RowsIdle /\ WrapIdle /\ UtilIdle

\* Lines 392-393
TReturnEnum ==
    /\ gpc = "start"
    /\ gpt_field[1].is_enum
    /\ gpt_return' = Some(S_Optional \o <<"[">> \o gpt_field[1].type_name
                          \o <<"]">>)
    /\ gpc' = "done"
    /\ UNCHANGED <<gpt_field, gpt_names, gpt_base,
                   mainVars, utilVars, normVars, rowVars, wrapVars>>

\* Lines 394-396
TBase ==
    /\ gpc = "start"
    /\ ~gpt_field[1].is_enum
    /\ gpt_base' =
           Some(IF InNames(gpt_field[1].type_name, gpt_names)
                THEN gpt_field[1].type_name
                ELSE TypeMappingGet(Lower(gpt_field[1].type_name),
                                    gpt_field[1].type_name))
    /\ gpc' = "base"
    /\ UNCHANGED <<gpt_field, gpt_names, gpt_return,
                   mainVars, utilVars, normVars, rowVars, wrapVars>>

\* Lines 397-398
TReturnList ==
    /\ gpc = "base"
    /\ gpt_field[1].is_collection
    /\ gpt_return' = Some(S_list \o <<"[">> \o gpt_base[1] \o <<"]">>)
    /\ gpc' = "done"
    /\ UNCHANGED <<gpt_field, gpt_names, gpt_base,
                   mainVars, utilVars, normVars, rowVars, wrapVars>>

\* Lines 399-406
TReturnDict ==
    /\ gpc = "base"
    /\ ~gpt_field[1].is_collection
    /\ gpt_field[1].is_map
    /\ \E key_type \in {TypeMappingGet(Lower(gpt_field[1].map_key_type[1]),
                                       gpt_field[1].map_key_type[1])} :
       \E value_type \in
              {IF InNames(gpt_field[1].map_value_type[1], gpt_names)
               THEN gpt_field[1].map_value_type[1]
               ELSE TypeMappingGet(Lower(gpt_field[1].map_value_type[1]),
                                   S_Any)} :
           gpt_return' = Some(S_dict \o <<"[">> \o key_type \o <<",", " ">>
                              \o value_type \o <<"]">>)
    /\ gpc' = "done"
    /\ UNCHANGED <<gpt_field, gpt_names, gpt_base,
                   mainVars, utilVars, normVars, rowVars, wrapVars>>

\* Line 407
TReturnOptional ==
    /\ gpc = "base"
    /\ ~gpt_field[1].is_collection
    /\ ~gpt_field[1].is_map
    /\ gpt_return' = Some(S_Optional \o <<"[">> \o gpt_base[1] \o <<"]">>)
    /\ gpc' = "done"
    /\ UNCHANGED <<gpt_field, gpt_names, gpt_base,
                   mainVars, utilVars, normVars, rowVars, wrapVars>>

NextType ==
    TReturnEnum \/ TBase \/ TReturnList \/ TReturnDict \/ TReturnOptional

SpecType == InitType /\ [][NextType]_vars

\* The statements agree with the function as GenerateModelCode applies it.
TypeStepsAgree ==
    gpc = "done" => gpt_return[1] = GetPythonType(gpt_field[1], gpt_names)

\* The four primitives.
PrimitiveType(n) == n \in {S_string, S_integer, S_number, S_boolean}

\* The emitted name of a type name that is a model or a primitive.
Resolvable(n) == InNames(n, gpt_names) \/ PrimitiveType(n)
EmittedTypeName(n) ==
    IF InNames(n, gpt_names) THEN n ELSE TypeMappingGet(n, n)

\* C17 (as stated): a collection field, enum-wrapped or not, is emitted as
\* list[T]; a map field as dict[K, V]; any other field carries the emitted
\* name of its model or the scalar of its primitive.
C17_Original ==
    gpc = "done" =>
        \E f \in {gpt_field[1]} : \E r \in {gpt_return[1]} :
            /\ f.is_collection =>
                   /\ StartsWith(r, S_list \o <<"[">>)
                   /\ Resolvable(f.type_name) =>
                          r = S_list \o <<"[">> \o EmittedTypeName(f.type_name)
                                     \o <<"]">>
            /\ (~f.is_collection /\ f.is_map) =>
                   /\ StartsWith(r, S_dict \o <<"[">>)
                   /\ (Resolvable(f.map_key_type[1])
                         /\ Resolvable(f.map_value_type[1])) =>
                          r = S_dict \o <<"[">>
                                \o EmittedTypeName(f.map_key_type[1])
                                \o <<",", " ">>
                                \o EmittedTypeName(f.map_value_type[1])
                                \o <<"]">>
            /\ (~f.is_collection /\ ~f.is_map /\ Resolvable(f.type_name)) =>
                   r = S_Optional \o <<"[">> \o EmittedTypeName(f.type_name)
                                  \o <<"]">>

\* C18 (as stated): the annotation of every field, scalar, reference, enum
\* reference, collection or map, is an Optional type.
C18_Original ==
    gpc = "done" => StartsWith(gpt_return[1], S_Optional \o <<"[">>)

----------------------------------------------------------------------------
(* The description of one field line: lines 365-379, statement by statement *)

\* The step of range(0, len(description), 100) and the length of a piece.
WrapWidth == 100

\* Most characters after the padding of a description.
MaxTail == 2

\* The first position at or after i of a character of chars
\* (Len(text) + 1 when there is none).
NextOf(text, i, chars) ==
    CHOOSE j \in i..(Len(text) + 1) :
        /\ j = Len(text) + 1 \/ text[j] \in chars
        /\ \A k \in i..(j - 1) : text[k] \notin chars

\* description.replace('"', '\\"') (line 365)
RECURSIVE EscapeQuotesFrom(_, _)
EscapeQuotesFrom(s, i) ==
    IF i > Len(s) THEN <<>>
    ELSE IF s[i] = "\"" THEN <<"\\", "\"">> \o EscapeQuotesFrom(s, i + 1)
    ELSE Sub(s, i, NextOf(s, i, {"\""}) - 1)
         \o EscapeQuotesFrom(s, NextOf(s, i, {"\""}))

EscapeQuotes(s) == EscapeQuotesFrom(s, 1)

Spaces(n) == [i \in 1..n |-> " "]

S_description_eq == <<"d","e","s","c","r","i","p","t","i","o","n","=">>

\* '    {field.name}: {field_type} = Field(' for the field f: Optional[str].
S_field_head ==
    Spaces(4) \o <<"f", ":", " ">> \o S_Optional \o <<"[">> \o S_str
    \o <<"]", " ", "=", " ", "F", "i", "e", "l", "d", "(">>

\* Line 370: the field line of a description of one piece.
SingleFieldLine(escaped) ==
    S_field_head \o S_description_eq \o <<"\"">> \o escaped \o <<"\"", ")">>

\* Lines 373-377: one quoted line for each piece.
RECURSIVE PieceLines(_, _)
PieceLines(pieces, i) ==
    IF i > Len(pieces) THEN <<>>
    ELSE Spaces(12) \o <<"\"">> \o pieces[i] \o <<"\"", "\n">>
         \o PieceLines(pieces, i + 1)

\* Lines 372-378: the field line of a description of no piece or several.
MultiFieldLine(pieces) ==
    S_field_head \o <<"\n">> \o Spaces(8) \o S_description_eq \o <<"(", "\n">>
    \o PieceLines(pieces, 1)
    \o Spaces(8) \o <<")", "\n">> \o Spaces(4) \o <<")">>

\* A description: a padding of n characters, then a tail.
Pad(n) == [i \in 1..n |-> "x"]
PadLengths ==
    {0, WrapWidth - 2, WrapWidth - 1, WrapWidth,
     2 * WrapWidth - 2, 2 * WrapWidth - 1}
TailChars == {"d", "\"", "\\"}
Tails == UNION {[1..n -> TailChars] : n \in 0..MaxTail}
Descriptions == {Pad(n) \o t : n \in PadLengths, t \in Tails}

InitWrap ==
    /\ field_description \in Descriptions
    /\ description_escaped = <<>>
    /\ description_lines = <<>>
    /\ field_line = <<>>
    /\ wpc = "escape"
    /\ RestIdle
    /\ NormIdle /\ RowsIdle /\ TypeIdle /\ UtilIdle

\* Line 365
WEscape ==
    /\ wpc = "escape"
    /\ description_escaped' = EscapeQuotes(field_description)
    /\ wpc' = "split"
    /\ UNCHANGED <<field_description, description_lines, field_line,
                   mainVars, utilVars, normVars, rowVars, typeVars>>

\* Lines 367-368: one turn of the loop, i = 100 * len(description_lines).
WPiece ==
    /\ wpc = "split"
    /\ Len(description_lines) * WrapWidth < Len(description_escaped)
    /\ \E i \in {Len(description_lines) * WrapWidth} :
           description_lines' =
               Append(description_lines,
                      Sub(description_escaped, i + 1,
                          Min({i + WrapWidth, Len(description_escaped)})))
    /\ UNCHANGED <<field_description, description_escaped, field_line, wpc,
                   mainVars, utilVars, normVars, rowVars, typeVars>>

\* Lines 369-370
WSingle ==
    /\ wpc = "split"
    /\ Len(description_lines) * WrapWidth >= Len(description_escaped)
    /\ Len(description_lines) = 1
    /\ field_line' = SingleFieldLine(description_escaped)
    /\ wpc' = "done"
    /\ UNCHANGED <<field_description, description_escaped, description_lines,
                   mainVars, utilVars, normVars, rowVars, typeVars>>

\* Lines 371-378
WMulti ==
    /\ wpc = "split"
    /\ Len(description_lines) * WrapWidth >= Len(description_escaped)
    /\ Len(description_lines) # 1
    /\ field_line' = MultiFieldLine(description_lines)
    /\ wpc' = "done"
    /\ UNCHANGED <<field_description, description_escaped, description_lines,
                   mainVars, utilVars, normVars, rowVars, typeVars>>

NextWrap == WEscape \/ WPiece \/ WSingle \/ WMulti

SpecWrap == InitWrap /\ [][NextWrap]_vars

\* The string literals of a text of Python, read from position i: the
\* characters of the literals in order, "END" after each literal and "ERR"
\* where the text cannot be read. Inside a literal a backslash takes the
\* next character with it (\" is a quote, \\ a backslash, any other pair
\* stays as written), a quote ends the literal, the end of the line or of
\* the text inside a literal is an error.
\* The characters a reader of literals stops at.
Marks == {"\"", "\\", "\n"}

RECURSIVE ReadLiterals(_, _, _)
ReadLiterals(text, i, inside) ==
    IF i > Len(text) THEN (IF inside THEN <<"ERR">> ELSE <<>>)
    ELSE IF text[i] \notin Marks
    THEN (IF inside THEN Sub(text, i, NextOf(text, i, Marks) - 1) ELSE <<>>)
         \o ReadLiterals(text, NextOf(text, i, Marks), inside)
    ELSE IF ~inside THEN ReadLiterals(text, i + 1, text[i] = "\"")
    ELSE IF text[i] = "\"" THEN <<"END">> \o ReadLiterals(text, i + 1, FALSE)
    ELSE IF text[i] = "\n" THEN <<"ERR">>
    ELSE IF i = Len(text) THEN <<"ERR">>
    ELSE IF text[i + 1] \in {"\"", "\\"}
    THEN <<text[i + 1]>> \o ReadLiterals(text, i + 2, TRUE)
    ELSE IF text[i + 1] = "\n" THEN ReadLiterals(text, i + 2, TRUE)
    ELSE <<"\\", text[i + 1]>> \o ReadLiterals(text, i + 2, TRUE)

IsCharacter(c) == c \notin {"END", "ERR"}

\* C19 (as stated): the quoted pieces of an emitted field line, each read as
\* a string literal and concatenated in order, are the field's description,
\* also with quotes or backslashes in it and with an escape sequence across
\* a boundary of 100 characters.
C19_Original ==
    wpc = "done" =>
        \E read \in {ReadLiterals(field_line, 1, FALSE)} :
            /\ \A k \in 1..Len(read) : read[k] # "ERR"
            /\ SelectSeq(read, IsCharacter) = field_description

----------------------------------------------------------------------------
(* The rounds of the ordering loop (checked under Spec) *)

\* The names of the pass under way that it has emitted already.
EmittedThisPass ==
    {for_list[k] : k \in 1..(for_i - 1)} \ remaining_models

\* added_models as the pass under way found it.
AddedBeforePass == added_models \ EmittedThisPass

\* A step of the loop that appends a definition.
EmitsStep == pc = "for" /\ Len(result') = Len(result) + 1

\* The name of the definition a step appends.
NameEmitted == result'[Len(result')].class_name

\* C22 (as stated): within a pass the loop emits a model only when each of
\* its dependencies was emitted before the pass began; a model whose
\* dependency is emitted during the pass waits for a later pass.
C22_Original ==
    [][(EmitsStep /\ pc' = "for")
          => DependenciesGet(for_list[for_i]) \subseteq AddedBeforePass]_vars

\* The smallest of a set of names.
SmallestName(S) == CHOOSE x \in S : \A y \in S : y = x \/ StrLess(x, y)

\* C23: a step emits a model with a dependency not yet emitted (a forced
\* emission) only at the end of a complete pass over the remaining models
\* that emitted nothing; the step then emits exactly one model, the smallest
\* remaining name, marks it emitted, and goes back to the passes.
C23_ForcedOnlyAfterIdlePass ==
    [][(EmitsStep /\ ~(DependenciesGet(NameEmitted) \subseteq added_models))
          => /\ for_i > Len(for_list)
             /\ remaining_models # {}
             /\ remaining_models = {for_list[k] : k \in 1..Len(for_list)}
             /\ NameEmitted = SmallestName(remaining_models)
             /\ remaining_models' = remaining_models \ {NameEmitted}
             /\ added_models' = added_models \cup {NameEmitted}
             /\ pc' = "while"]_vars

C23_Witness ==
    /\ pc = "while"
    /\ ~progress_made
    /\ for_list = <<N_A, N_B>>
    /\ remaining_models = {N_B}
    /\ N_A \in added_models
    /\ dependencies[N_A] = {N_B}

\* The names a set of names reaches along the dependencies.
RECURSIVE Reaches(_)
Reaches(S) ==
    IF (UNION {DependenciesGet(x) : x \in S}) \subseteq S THEN S
    ELSE Reaches(S \cup UNION {DependenciesGet(x) : x \in S})

\* The name is on a cycle of the dependency graph.
OnCycle(n) == n \in Reaches(DependenciesGet(n))

\* C24 (as stated): a record-kind model comes before a record-kind model it
\* depends on only if it is on a dependency cycle itself; a model that only
\* reaches a cycle comes after all its dependencies.
C24_Original ==
    (Done /\ UniquelyNamed) =>
        \A n \in DOMAIN dependencies :
            \A d \in dependencies[n] :
                (LoopPos(n) < LoopPos(d)) => OnCycle(n)

\* The enum block (lines 290-292) has been written.
EnumsEmitted == pc \in {"while", "for", "done"}

\* How many models of a list have the name.
CountNamed(ms, n) == Cardinality({k \in 1..Len(ms) : ms[k].name = n})

\* C25: the definitions of the enum-kind models head the output in ascending
\* order of name, one for each model of enum_models, wherever the models
\* stand in the input list and whatever fields they have.
C25_EnumsAscendingByName ==
    EnumsEmitted =>
        /\ Len(result) >= Len(enum_models)
        /\ \A i, j \in 1..Len(enum_models) :
               i < j => ~StrLess(EmittedNames[j], EmittedNames[i])
        /\ \A k \in 1..Len(enum_models) :
               Cardinality({i \in 1..Len(enum_models) :
                               EmittedNames[i] = enum_models[k].name})
                   = CountNamed(enum_models, enum_models[k].name)

C25_Witness ==
    /\ Done
    /\ Len(enum_models) = 2
    /\ enum_models[1].name = N_KType /\ Len(enum_models[1].fields) = 2
    /\ enum_models[2].name = N_D /\ Len(enum_models[2].fields) = 1
    /\ EmittedNames[1] = N_D
    /\ EmittedNames[2] = N_KType

\* The dict of dependencies (lines 265-280) has been built.
DependenciesBuilt == pc \in {"enums", "while", "for", "done"}

\* The field refers to the name by its base type or as the value of a map.
RefersTo(f, n) ==
    \/ f.type_name = n
    \/ f.is_map /\ f.map_value_type = Some(n)

\* The names anything speaks of: models, types of fields, values of maps,
\* targets of edges.
NamesSpokenOf ==
    NamesOf(models)
        \cup UNION {{models[k].fields[i].type_name :
                        i \in 1..Len(models[k].fields)} : k \in 1..Len(models)}
        \cup UNION {UNION {IF models[k].fields[i].is_map
                           THEN {models[k].fields[i].map_value_type[1]}
                           ELSE {} : i \in 1..Len(models[k].fields)} :
                        k \in 1..Len(models)}
        \cup UNION {dependencies[n] : n \in DOMAIN dependencies}

----------------------------------------------------------------------------
(* One table for each section (checked under Spec) *)

\* The field is one an ENUM_VALUES row gives (lines 174-179).
EnumLiteralField(f) ==
    /\ f.type_name = S_str /\ f.is_enum
    /\ ~f.is_collection /\ ~f.is_map
    /\ f.map_key_type = None /\ f.map_value_type = None

\* C27: a section gives enum literals or record fields, never both: the
\* model of a section with an ENUM_VALUES sub-section has the fields of
\* that table's rows only (type "str", enum flag set), its FIELDS table is
\* not read; the model of any other section has the fields of its FIELDS
\* rows only.
C27_OneTablePerSection ==
    pc = "classify" =>
        \A i \in 1..Len(ExtractedSections) :
            IF ExtractedSections[i].enum # None
            THEN /\ models[i].fields =
                        EnumRowsFields(ExtractedSections[i].enum[1], 1)
                 /\ \A k \in 1..Len(models[i].fields) :
                        EnumLiteralField(models[i].fields[k])
            ELSE models[i].fields =
                     (IF ExtractedSections[i].fields = None THEN <<>>
                      ELSE FieldRowsFields(ExtractedSections[i].fields[1], 1))

C27_Witness ==
    /\ pc = "classify"
    /\ ExtractedSections # <<>>
    /\ ExtractedSections[1].id = N_M
    /\ ExtractedSections[1].enum # None
    /\ ExtractedSections[1].fields # None
    /\ Len(ExtractedSections[1].fields[1]) = 1
    /\ Len(models[1].fields) = 2
    /\ models[1].fields[1].name = <<"U", "P">>
    /\ models[1].fields[2].name = <<"d", "o", "w", "n">>

----------------------------------------------------------------------------
(* The two tests of the kind of a model (checked under Spec) *)

\* C28: the resolver and the emitter agree on the kind of every model: a
\* model of enum_models is rendered as a (str, Enum) class, a model of
\* regular_models as a BaseModel class, a model without fields included,
\* and every model is in one of the two lists.
C28_KindsAgree ==
    pc = "dependencies" =>
        \A k \in 1..Len(models) :
            /\ InList(models[k], enum_models) \/ InList(models[k], regular_models)
            /\ InList(models[k], enum_models)
                   => GenerateModelCode(models[k], models).base = "str, Enum"
            /\ InList(models[k], regular_models)
                   => GenerateModelCode(models[k], models).base = "BaseModel"

C28_Witness ==
    /\ pc = "dependencies"
    /\ \E k \in 1..Len(enum_models) :
           enum_models[k].name = N_KType /\ enum_models[k].fields = <<>>
    /\ \E k \in 1..Len(enum_models) :
           enum_models[k].name = N_D /\ Len(enum_models[k].fields) = 1
    /\ \E k \in 1..Len(regular_models) :
           regular_models[k].fields = <<>>
    /\ \E k \in 1..Len(regular_models) :
           regular_models[k].name = N_M /\ Len(regular_models[k].fields) = 2

----------------------------------------------------------------------------
(* generate_pydantic_models as a function of its list (lines 254-316) *)

\* Lines 298-307: the pass from the i-th name of the sorted list on; st holds
\* added_models and the names emitted by the loop so far.
RECURSIVE PassFrom(_, _, _, _)
PassFrom(deps, names, i, st) ==
    IF i > Len(names) THEN st
    ELSE IF deps[names[i]] \subseteq st.added
    THEN PassFrom(deps, names, i + 1,
                  [added |-> st.added \cup {names[i]},
                   out |-> Append(st.out, names[i])])
    ELSE PassFrom(deps, names, i + 1, st)

\* Lines 308-315: after a pass, with the names that remained before it.
AfterPass(remaining, before, after) ==
    IF after.out # before.out THEN after
    ELSE [added |-> before.added \cup {SortedNames(remaining)[1]},
          out |-> Append(before.out, SortedNames(remaining)[1])]

\* Lines 296-315: the while loop.
RECURSIVE LoopFrom(_, _, _)
LoopFrom(deps, regular_names, st) ==
    IF regular_names \subseteq {st.out[k] : k \in 1..Len(st.out)} THEN st.out
    ELSE LoopFrom(deps, regular_names,
                  AfterPass(regular_names \ {st.out[k] : k \in 1..Len(st.out)},
                            st,
                            PassFrom(deps,
                                     SortedNames(regular_names
                                         \ {st.out[k] : k \in 1..Len(st.out)}),
                                     1, st)))

\* The names of the definitions generate_pydantic_models writes for a list.
EmissionOrderOf(ms, enums, regulars) ==
    [i \in 1..Len(enums) |-> SortedByName(enums)[i].name]
        \o LoopFrom(Dependencies(ms, enums, regulars), NamesOf(regulars),
                    [added |-> NamesOf(enums), out |-> <<>>])

EmissionOrder(ms) ==
    EmissionOrderOf(ms, SelectSeq(ms, ClassifiedEnum),
                    SelectSeq(ms, ClassifiedRegular))

\* The list with its i-th and j-th models exchanged.
Exchanged(ms, i, j) ==
    [k \in 1..Len(ms) |-> IF k = i THEN ms[j] ELSE IF k = j THEN ms[i] ELSE ms[k]]

\* C29: the order of the definitions depends on the set of models only: for
\* uniquely named models, the same models in another order of the input
\* list (two of them exchanged, or the list turned round) give the
\* definitions in the order the run has written them.
C29_OrderIndependentOfInputOrder ==
    (Done /\ UniquelyNamed) =>
        /\ EmissionOrder(models) = EmittedNames
        /\ EmissionOrder(TurnedRound(models)) = EmittedNames
        /\ \A i, j \in 1..Len(models) :
               i < j => EmissionOrder(Exchanged(models, i, j)) = EmittedNames

C29_Witness ==
    /\ Done
    /\ UniquelyNamed
    /\ Len(models) = 3
    /\ models[1].name = N_KType /\ models[2].name = N_C /\ models[3].name = N_A
    /\ EmittedNames = <<N_KType, N_A, N_C>>
    /\ dependencies[N_C] = {N_A}

----------------------------------------------------------------------------
(* The form of a field line (checked under SpecWrap) *)

\* The field line is of the multi-line form: its head ends the first line.
MultiLineForm ==
    /\ Len(field_line) > Len(S_field_head)
    /\ field_line[Len(S_field_head) + 1] = "\n"

\* C30 (as stated): a description of at most 100 characters, the empty one
\* included, is emitted in the single-line form Field(description="...");
\* the multi-line form is used only for a description of more than 100
\* characters and then holds at least two pieces.
C30_Original ==
    wpc = "done" =>
        /\ Len(field_description) <= WrapWidth
               => field_line = SingleFieldLine(EscapeQuotes(field_description))
        /\ MultiLineForm
               => Len(field_description) > WrapWidth /\ Len(description_lines) >= 2

----------------------------------------------------------------------------
(* google_docs/utils.py: get_fields and get_dict_request, on their own *)

\* Most fields of a pydantic model.
MaxModelFields == 3

\* The aliases of the fields (alias_generator to_camel), the values they
\* hold and their defaults: nothing, a scalar, a nested model.
FieldAliases ==
    { <<"t","i","t","l","e">>,
      <<"d","o","c","u","m","e","n","t","I","d">>,
      <<"t","a","b","I","d">> }
FieldValues == {"null", "v", "{}"}
FieldDefaults == {"null", "v"}

ModelFields == [alias : FieldAliases, value : FieldValues, default : FieldDefaults]

\* The instances: each alias at most once.
BaseModels ==
    {m \in UNION {[1..n -> ModelFields] : n \in 0..MaxModelFields} :
        \A i, j \in 1..Len(m) : i # j => m[i].alias # m[j].alias}

\* The field is left out of a dump that excludes defaults.
AtDefault(f) == f.value = f.default

KeptInDump(f) == ~AtDefault(f)

\* model_dump(by_alias=True, exclude_defaults=True): the items of the dict,
\* in the order of the fields (line 30).
ModelDump(m) ==
    [i \in 1..Len(SelectSeq(m, KeptInDump)) |->
        [key |-> SelectSeq(m, KeptInDump)[i].alias,
         value |-> SelectSeq(m, KeptInDump)[i].value]]

\* A join with a comma and a space.
RECURSIVE JoinCommaSpace(_, _)
JoinCommaSpace(names, i) ==
    IF i > Len(names) THEN <<>>
    ELSE (IF i > 1 THEN <<",", " ">> ELSE <<>>) \o names[i]
         \o JoinCommaSpace(names, i + 1)

\* ",".join(names), from the i-th name on (line 17).
RECURSIVE JoinCommas(_, _)
JoinCommas(names, i) ==
    IF i > Len(names) THEN <<>>
    ELSE (IF i > 1 THEN <<",">> ELSE <<>>) \o names[i]
         \o JoinCommas(names, i + 1)

InitUtil ==
    /\ basemodel \in BaseModels
    /\ request_dict = <<>>
    /\ used_fields = <<>>
    /\ fields_text = None
    /\ fpc = "dump"
    /\ RestIdle
    /\ NormIdle /\ RowsIdle /\ TypeIdle /\ WrapIdle

\* Line 30, called at line 14
GetDictRequest ==
    /\ fpc = "dump"
    /\ request_dict' = ModelDump(basemodel)
    /\ fpc' = "keys"
    /\ UNCHANGED <<basemodel, used_fields, fields_text,
                   mainVars, normVars, rowVars, typeVars, wrapVars>>

\* Line 14
FKeys ==
    /\ fpc = "keys"
    /\ used_fields' = [i \in 1..Len(request_dict) |-> request_dict[i].key]
    /\ fpc' = "test"
    /\ UNCHANGED <<basemodel, request_dict, fields_text,
                   mainVars, normVars, rowVars, typeVars, wrapVars>>

\* Lines 15-16
FReturnStar ==
    /\ fpc = "test"
    /\ Len(used_fields) = 0
    /\ fields_text' = Some(<<"*">>)
    /\ fpc' = "done"
    /\ UNCHANGED <<basemodel, request_dict, used_fields,
                   mainVars, normVars, rowVars, typeVars, wrapVars>>

\* Line 17
FReturnJoined ==
    /\ fpc = "test"
    /\ Len(used_fields) # 0
    /\ fields_text' = Some(JoinCommas(used_fields, 1))
    /\ fpc' = "done"
    /\ UNCHANGED <<basemodel, request_dict, used_fields,
                   mainVars, normVars, rowVars, typeVars, wrapVars>>

NextUtil == GetDictRequest \/ FKeys \/ FReturnStar \/ FReturnJoined

SpecUtil == InitUtil /\ [][NextUtil]_vars

\* The parts of a text between its commas, from position i on.
RECURSIVE SplitAtCommas(_, _)
SplitAtCommas(text, i) ==
    IF NextOf(text, i, {","}) > Len(text) THEN <<Sub(text, i, Len(text))>>
    ELSE <<Sub(text, i, NextOf(text, i, {","}) - 1)>>
         \o SplitAtCommas(text, NextOf(text, i, {","}) + 1)

\* The aliases of the fields that are away from their defaults, in order.
RECURSIVE AliasesInUse(_, _)
AliasesInUse(m, i) ==
    IF i > Len(m) THEN <<>>
    ELSE (IF m[i].value # m[i].default THEN <<m[i].alias>> ELSE <<>>)
         \o AliasesInUse(m, i + 1)

====
